---- MODULE Spec2Model ----
(***************************************************************************)
(* A model of focusforge.c: the focus/break session timer driven by the    *)
(* main loop run_timer, the session log and the streak counters it writes, *)
(* the today's-session query, and the task list.                           *)
(*                                                                         *)
(* Text is modelled as sequences of ASCII codes, files as sequences of     *)
(* lines (a line holds no terminating newline).  time(NULL) is the         *)
(* variable now, in seconds; local time is modelled for the days of one    *)
(* month, day 0 starting at now = 0.                                       *)
(***************************************************************************)
EXTENDS Integers, Sequences, FiniteSets, TLC

VARIABLES
    session_state,          \* int session_state
    timer_seconds,          \* int timer_seconds
    session_start_time,     \* time_t session_start_time
    focus_task,             \* char focus_task[MAX_TASK_LEN]
    tasks,                  \* Task tasks[MAX_TASKS], the first num_tasks of them
    current_task_index,     \* int current_task_index
    input_mode,             \* int input_mode
    input_buffer,           \* char input_buffer[MAX_INPUT_LEN], its first
                            \* input_pos characters
    show_help,              \* int show_help
    running,                \* volatile sig_atomic_t running
    resize_pending,         \* volatile sig_atomic_t resize_pending
    notification_win,       \* WINDOW *notification_win (TRUE: not NULL)
    notification_end_time,  \* time_t notification_end_time
    notification_msg,       \* the text drawn in notification_win
    today_sessions,         \* display_screen's last get_today_sessions_count()
    tasks_file,             \* ~/.focusforge/tasks.txt
    sessions_file,          \* ~/.focusforge/sessions.csv
    meta_file,              \* ~/.focusforge/meta: the two counters it holds
    now,                    \* the value time(NULL) returns
    missing,                \* the files of ~/.focusforge that do not exist
    resizes,                \* the SIGWINCH signals delivered so far
    resizes_read,           \* how many of them had been delivered when
                            \* setup_windows last read the terminal's size
    resize_at,              \* where run_timer stood when the last of them
                            \* was delivered
    pc,                     \* where run_timer stands
    sig_received,           \* the signal signal_handler was called with, 0 if
                            \* it was not called
    exit_code,              \* the argument of exit(), -1 while the process runs
    shutdown,               \* the calls cleanup_and_exit has made, in order
    ev,                     \* the step taken last and its inputs
    nkeys,                  \* key events in Normal mode, and signals, so far
    idle,                   \* poll timeouts taken while no session was active
    ticks,                  \* poll timeouts since the last start of a Focus
                            \* session, -1 once anything else has happened
    streak_hist             \* the Focus sessions completed on the latest day
                            \* on which one was

sessVars  == <<session_state, timer_seconds, session_start_time>>
fileVars  == <<sessions_file, meta_file>>
notifVars == <<notification_win, notification_end_time, notification_msg>>
taskVars  == <<tasks, current_task_index, tasks_file, focus_task>>
inputVars == <<input_mode, input_buffer, show_help>>
loopVars  == <<running, resize_pending, pc>>
exitVars  == <<sig_received, exit_code, shutdown>>
envVars   == <<missing, resizes, resizes_read, resize_at>>
histVars  == <<ev, nkeys, idle, ticks, streak_hist>>
vars == <<sessVars, fileVars, notifVars, taskVars, inputVars, loopVars,
          exitVars, envVars, histVars, today_sessions, now>>

(***************************************************************************)
(* Program constants.                                                      *)
(***************************************************************************)
MAX_TASKS == 100
MAX_TASK_LEN == 256
MAX_INPUT_LEN == 512
FOCUS_DURATION == 1500
BREAK_DURATION == 300
DATE_STR_LEN == 11
TIME_STR_LEN == 6
SESSION_INACTIVE == 0
SESSION_FOCUS == 1
SESSION_BREAK == 2
SIGINT == 2
SIGTERM == 15
SECS_PER_DAY == 86400

(***************************************************************************)
(* Bounds of the model.                                                    *)
(***************************************************************************)
MaxKeys == 4        \* key events in one run
KeyWindow == 1      \* keys arrive within this many seconds of a session's
                    \* start or of its end
QuietKeys == 1      \* a session runs past its first KeyWindow seconds only
                    \* in runs of at most this many key events so far
MaxIdle == 1        \* poll timeouts taken while Inactive

(***************************************************************************)
(* Characters are their ASCII codes: 9 tab, 32 space, 34 '"', 43 '+',      *)
(* 44 ',', 45 '-', 48..57 the digits, 58 ':', 63 '?', 88 'X', 91 '[',      *)
(* 93 ']', 97.. the lower-case letters.                                    *)
(***************************************************************************)
IsDigit(c) == c >= 48 /\ c <= 57

\* safe_strncpy(dest, src, dest_size): at most dest_size - 1 characters
safe_strncpy(src, dest_size) ==
    IF Len(src) >= dest_size THEN SubSeq(src, 1, dest_size - 1) ELSE src

\* printf's %d, for n >= 0 and for n < 0
RECURSIVE FmtNat(_)
FmtNat(n) == IF n < 10 THEN <<48 + n>>
             ELSE Append(FmtNat(n \div 10), 48 + (n % 10))
FmtInt(n) == IF n < 0 THEN <<45>> \o FmtNat(-n) ELSE FmtNat(n)

\* printf's and strftime's two-digit fields
Fmt02(n) == <<48 + ((n \div 10) % 10), 48 + (n % 10)>>

\* atoi: leading blanks, an optional sign, then digits up to the first
\* character that is none
RECURSIVE AtoiDigits(_, _, _)
AtoiDigits(s, i, acc) ==
    IF i > Len(s) \/ ~IsDigit(s[i]) THEN acc
    ELSE AtoiDigits(s, i + 1, acc * 10 + (s[i] - 48))
RECURSIVE SkipBlanks(_, _)
SkipBlanks(s, i) ==
    IF i <= Len(s) /\ (s[i] = 32 \/ s[i] = 9) THEN SkipBlanks(s, i + 1) ELSE i
atoi(s) ==
    LET i == SkipBlanks(s, 1) IN
    IF i <= Len(s) /\ s[i] = 45 THEN -AtoiDigits(s, i + 1, 0)
    ELSE IF i <= Len(s) /\ s[i] = 43 THEN AtoiDigits(s, i + 1, 0)
    ELSE AtoiDigits(s, i, 0)

\* strchr(s + from - 1, c): the index of the first c at or after from, 0 if none
strchr(s, from, c) ==
    LET found == {k \in from..Len(s) : s[k] = c}
    IN  IF found = {} THEN 0
        ELSE CHOOSE k \in found : \A j \in found : k <= j

(***************************************************************************)
(* Local time.  localtime + strftime("%Y-%m-%d") and ("%H:%M"), for the    *)
(* days of January 2024 with day 0 starting at t = 0.                      *)
(***************************************************************************)
DayOf(t) == t \div SECS_PER_DAY
DateStr(t) == <<50, 48, 50, 52, 45, 48, 49, 45>> \o Fmt02(DayOf(t) + 1)
TimeStr(t) == Fmt02((t % SECS_PER_DAY) \div 3600) \o <<58>>
              \o Fmt02((t % 3600) \div 60)

(***************************************************************************)
(* The session log.                                                        *)
(***************************************************************************)
\* parse_csv_line: date,time,duration,"task".  The fields are cut at the
\* first three commas; date and time are copied into buffers of
\* DATE_STR_LEN and TIME_STR_LEN characters, the duration is read by atoi.
parse_csv_line(line) ==
    LET lc == safe_strncpy(line, 512)
        bad == [ok |-> FALSE, date |-> <<>>, time |-> <<>>, duration |-> 0,
                task |-> <<>>]
        p1 == strchr(lc, 1, 44)
        p2 == strchr(lc, p1 + 1, 44)
        p3 == strchr(lc, p2 + 1, 44)
        q  == strchr(lc, p3 + 2, 34)
    IN  IF p1 = 0 THEN bad
        ELSE IF p2 = 0 THEN bad
        ELSE IF p3 = 0 THEN bad
        ELSE IF ~(p3 + 1 <= Len(lc) /\ lc[p3 + 1] = 34) THEN bad
        ELSE IF q = 0 THEN bad
        ELSE [ok |-> TRUE,
              date |-> safe_strncpy(SubSeq(lc, 1, p1 - 1), DATE_STR_LEN),
              time |-> safe_strncpy(SubSeq(lc, p1 + 1, p2 - 1), TIME_STR_LEN),
              duration |-> atoi(SubSeq(lc, p2 + 1, p3 - 1)),
              task |-> safe_strncpy(SubSeq(lc, p3 + 2, q - 1), MAX_TASK_LEN)]

\* get_today_sessions_count at time t
get_today_sessions_count(sessions, t) ==
    Cardinality({i \in 1..Len(sessions) :
        /\ parse_csv_line(sessions[i]).ok
        /\ parse_csv_line(sessions[i]).date = DateStr(t)})

\* update_streaks without its test of had_session_today
update_streaks_every_time(sessions, meta, t) ==
    LET yesterday_str == DateStr(t - SECS_PER_DAY)
        had_session_yesterday ==
            \E i \in 1..Len(sessions) :
                /\ parse_csv_line(sessions[i]).ok
                /\ parse_csv_line(sessions[i]).date = yesterday_str
        cur == meta.streak_current + 1
    IN  IF had_session_yesterday
        THEN [streak_max |-> IF cur > meta.streak_max THEN cur
                             ELSE meta.streak_max,
              streak_current |-> cur]
        ELSE [streak_max |-> meta.streak_max, streak_current |-> 1]

\* update_streaks at time t: the counters it leaves in the meta file
update_streaks(sessions, meta, t) ==
    LET today_str == DateStr(t)
        yesterday_str == DateStr(t - SECS_PER_DAY)
        had_session_yesterday ==
            \E i \in 1..Len(sessions) :
                /\ parse_csv_line(sessions[i]).ok
                /\ parse_csv_line(sessions[i]).date = yesterday_str
        had_session_today ==
            \E i \in 1..Len(sessions) :
                /\ parse_csv_line(sessions[i]).ok
                /\ parse_csv_line(sessions[i]).date # yesterday_str
                /\ parse_csv_line(sessions[i]).date = today_str
        cur == meta.streak_current + 1
    IN  IF had_session_today THEN meta
        ELSE IF had_session_yesterday
             THEN [streak_max |-> IF cur > meta.streak_max THEN cur
                                  ELSE meta.streak_max,
                   streak_current |-> cur]
        ELSE [streak_max |-> meta.streak_max, streak_current |-> 1]

\* The line log_session writes for a session started at start, ended at t
SessionLine(start, t, label) ==
    DateStr(start) \o <<44>> \o TimeStr(start) \o <<44>>
    \o FmtInt(t - start) \o <<44, 34>> \o label \o <<34>>

\* log_session with the log opened in mode "w": what was there is lost
log_session_truncating(open_ok) ==
    IF ~open_ok THEN [sessions |-> sessions_file, meta |-> meta_file]
    ELSE LET written == <<SessionLine(session_start_time, now, focus_task)>>
         IN  [sessions |-> written,
              meta |-> update_streaks(written, meta_file, now)]

\* log_session going on to update_streaks when the log does not open
log_session_streaks_on_failure(open_ok) ==
    IF ~open_ok
    THEN [sessions |-> sessions_file,
          meta |-> update_streaks(sessions_file, meta_file, now)]
    ELSE LET written == Append(sessions_file,
                            SessionLine(session_start_time, now, focus_task))
         IN  [sessions |-> written,
              meta |-> update_streaks(written, meta_file, now)]

\* log_session, called at time now; open_ok: fopen(sessions_file, "a")
\* succeeds.  The two files as it leaves them.
log_session(open_ok) ==
    IF ~open_ok THEN [sessions |-> sessions_file, meta |-> meta_file]
    ELSE LET written == Append(sessions_file,
                            SessionLine(session_start_time, now, focus_task))
         IN  [sessions |-> written,
              meta |-> update_streaks(written, meta_file, now)]

(***************************************************************************)
(* Notifications and the screen.                                           *)
(***************************************************************************)
\* show_notification(message, duration)
show_notification(message, duration) ==
    /\ notification_win' = TRUE
    /\ notification_end_time' = now + duration
    /\ notification_msg' = message

\* display_screen, on the session log as the handler leaves it: the
\* "Today:" count is read again and an expired notification is torn down
display_screen(sessions) ==
    /\ today_sessions' = get_today_sessions_count(sessions, now)
    /\ notification_win' = (notification_win /\ ~(now >= notification_end_time))
    /\ UNCHANGED <<notification_end_time, notification_msg>>

\* show_notification(message, duration) followed by display_screen()
notify_and_display(message, duration, sessions) ==
    /\ today_sessions' = get_today_sessions_count(sessions, now)
    /\ notification_win' = ~(now >= now + duration)
    /\ notification_end_time' = now + duration
    /\ notification_msg' = message

(***************************************************************************)
(* The task file.                                                          *)
(***************************************************************************)
\* save_tasks writing 'x' for 'X'
TaskLine_lower_case(t) == <<91, IF t.done # 0 THEN 120 ELSE 32, 93, 32>> \o t.task

\* save_tasks: one line "[X] text" or "[ ] text" per task
TaskLine(t) == <<91, IF t.done # 0 THEN 88 ELSE 32, 93, 32>> \o t.task
save_tasks(ts) == [i \in 1..Len(ts) |-> TaskLine(ts[i])]

\* What successive fgets(line, MAX_INPUT_LEN, fp) return for one line l of
\* the file, its newline (10) included
RECURSIVE fgets(_)
fgets(l) ==
    IF Len(l) <= MAX_INPUT_LEN - 1 THEN <<l>>
    ELSE <<SubSeq(l, 1, MAX_INPUT_LEN - 1)>>
         \o fgets(SubSeq(l, MAX_INPUT_LEN, Len(l)))

\* What the fgets calls of load_tasks return, in order, on the lines lo..hi
\* of the file
RECURSIVE LinesRead(_, _, _)
LinesRead(file, lo, hi) ==
    IF lo > hi THEN <<>>
    ELSE IF lo = hi THEN fgets(Append(file[lo], 10))
    ELSE LET mid == (lo + hi) \div 2
         IN  LinesRead(file, lo, mid) \o LinesRead(file, mid + 1, hi)

\* load_tasks, reading a file that opens: of the lines read, those that
\* begin "[c]" and have four characters make a task each, in order, until
\* there are MAX_TASKS
load_tasks(file) ==
    LET lines == LinesRead(file, 1, Len(file))
        parsed == {k \in 1..Len(lines) :
                      /\ Len(lines[k]) >= 4
                      /\ lines[k][1] = 91 /\ lines[k][3] = 93}
        num_tasks == IF Cardinality(parsed) < MAX_TASKS
                     THEN Cardinality(parsed) ELSE MAX_TASKS
        Nth(n) == CHOOSE k \in parsed :
                      Cardinality({j \in parsed : j <= k}) = n
        Read(line) ==
            LET task_start == SubSeq(line, 5, Len(line))
                newline == strchr(task_start, 1, 10)
                text == IF newline = 0 THEN task_start
                        ELSE SubSeq(task_start, 1, newline - 1)
            IN  [task |-> safe_strncpy(text, MAX_TASK_LEN),
                 done |-> IF line[2] = 88 THEN 1 ELSE 0]
    IN  [n \in 1..num_tasks |-> Read(lines[Nth(n)])]

\* remove_task's loop  for (i = index; i < num_tasks - 1; i++)
\*                         tasks[i] = tasks[i + 1];   (i counts from 0)
RECURSIVE ShiftUp(_, _)
ShiftUp(ts, i) ==
    IF i < Len(ts) - 1 THEN ShiftUp([ts EXCEPT ![i + 1] = ts[i + 2]], i + 1)
    ELSE ts

\* remove_task with its loop started one place late
remove_task_late_shift(index) ==
    IF index >= 0 /\ index < Len(tasks)
    THEN LET left == SubSeq(ShiftUp(tasks, index + 1), 1, Len(tasks) - 1)
         IN  /\ tasks' = left
             /\ tasks_file' = save_tasks(left)
             /\ show_notification("Task removed", 2)
    ELSE /\ show_notification("Invalid task number", 2)
         /\ UNCHANGED <<tasks, tasks_file>>

\* remove_task(index), index counted from 0; num_tasks is Len(tasks)
remove_task(index) ==
    IF index >= 0 /\ index < Len(tasks)
    THEN LET left == SubSeq(ShiftUp(tasks, index), 1, Len(tasks) - 1)
         IN  /\ tasks' = left
             /\ tasks_file' = save_tasks(left)
             /\ show_notification("Task removed", 2)
    ELSE /\ show_notification("Invalid task number", 2)
         /\ UNCHANGED <<tasks, tasks_file>>

(***************************************************************************)
(* The session machine.  Each handler says what it does to the session,    *)
(* to the two files it may write, to the notification and to the screen.   *)
(***************************************************************************)
\* start_focus_session without its test of session_state
start_focus_session_unguarded ==
    /\ session_state' = SESSION_FOCUS
    /\ session_start_time' = now
    /\ timer_seconds' = FOCUS_DURATION
    /\ notify_and_display("Focus session started", 2, sessions_file)
    /\ UNCHANGED fileVars

start_focus_session ==
    IF session_state # SESSION_INACTIVE
    THEN /\ show_notification("Session already active", 2)
         /\ UNCHANGED <<sessVars, fileVars, today_sessions>>
    ELSE /\ session_state' = SESSION_FOCUS
         /\ session_start_time' = now
         /\ timer_seconds' = FOCUS_DURATION
         /\ notify_and_display("Focus session started", 2, sessions_file)
         /\ UNCHANGED fileVars

start_break_session ==
    IF session_state # SESSION_INACTIVE
    THEN /\ show_notification("Session already active", 2)
         /\ UNCHANGED <<sessVars, fileVars, today_sessions>>
    ELSE /\ session_state' = SESSION_BREAK
         /\ session_start_time' = now
         /\ timer_seconds' = BREAK_DURATION
         /\ notify_and_display("Break session started", 2, sessions_file)
         /\ UNCHANGED fileVars

\* stop_session logging whatever session it stops
stop_session_logs_break(open_ok) ==
    IF session_state = SESSION_INACTIVE
    THEN /\ show_notification("No active session", 2)
         /\ UNCHANGED <<sessVars, fileVars, today_sessions>>
    ELSE LET r == log_session(open_ok)
         IN  /\ sessions_file' = r.sessions
             /\ meta_file' = r.meta
             /\ session_state' = SESSION_INACTIVE
             /\ timer_seconds' = FOCUS_DURATION
             /\ notify_and_display("Session stopped", 2, r.sessions)
             /\ UNCHANGED session_start_time

\* stop_session leaving the timer where it stood
stop_session_keeps_timer(open_ok) ==
    IF session_state = SESSION_INACTIVE
    THEN /\ show_notification("No active session", 2)
         /\ UNCHANGED <<sessVars, fileVars, today_sessions>>
    ELSE LET r == IF session_state = SESSION_FOCUS THEN log_session(open_ok)
                  ELSE [sessions |-> sessions_file, meta |-> meta_file]
         IN  /\ sessions_file' = r.sessions
             /\ meta_file' = r.meta
             /\ session_state' = SESSION_INACTIVE
             /\ notify_and_display("Session stopped", 2, r.sessions)
             /\ UNCHANGED <<session_start_time, timer_seconds>>

stop_session(open_ok) ==
    IF session_state = SESSION_INACTIVE
    THEN /\ show_notification("No active session", 2)
         /\ UNCHANGED <<sessVars, fileVars, today_sessions>>
    ELSE LET r == IF session_state = SESSION_FOCUS THEN log_session(open_ok)
                  ELSE [sessions |-> sessions_file, meta |-> meta_file]
         IN  /\ sessions_file' = r.sessions
             /\ meta_file' = r.meta
             /\ session_state' = SESSION_INACTIVE
             /\ timer_seconds' = FOCUS_DURATION
             /\ notify_and_display("Session stopped", 2, r.sessions)
             /\ UNCHANGED session_start_time

\* skip_session leaving the timer where it stood
skip_session_keeps_timer(open_ok) ==
    IF session_state = SESSION_INACTIVE
    THEN /\ show_notification("No active session", 2)
         /\ UNCHANGED <<sessVars, fileVars, today_sessions>>
    ELSE IF session_state = SESSION_FOCUS
    THEN LET r == log_session(open_ok)
         IN  /\ sessions_file' = r.sessions
             /\ meta_file' = r.meta
             /\ session_state' = SESSION_BREAK
             /\ notify_and_display("Focus session completed. Break started.",
                                   2, r.sessions)
             /\ UNCHANGED <<session_start_time, timer_seconds>>
    ELSE /\ session_state' = SESSION_INACTIVE
         /\ notify_and_display(
                "Break completed. Ready for next focus session.", 2,
                sessions_file)
         /\ UNCHANGED <<session_start_time, timer_seconds, fileVars>>

skip_session(open_ok) ==
    IF session_state = SESSION_INACTIVE
    THEN /\ show_notification("No active session", 2)
         /\ UNCHANGED <<sessVars, fileVars, today_sessions>>
    ELSE IF session_state = SESSION_FOCUS
    THEN LET r == log_session(open_ok)
         IN  /\ sessions_file' = r.sessions
             /\ meta_file' = r.meta
             /\ session_state' = SESSION_BREAK
             /\ timer_seconds' = BREAK_DURATION
             /\ notify_and_display("Focus session completed. Break started.",
                                   2, r.sessions)
             /\ UNCHANGED session_start_time
    ELSE /\ session_state' = SESSION_INACTIVE
         /\ timer_seconds' = FOCUS_DURATION
         /\ notify_and_display(
                "Break completed. Ready for next focus session.", 2,
                sessions_file)
         /\ UNCHANGED <<session_start_time, fileVars>>

\* The expiry check with "< 0" for "<= 0"
expiry_check_late(open_ok) ==
    IF timer_seconds < 0 /\ session_state # SESSION_INACTIVE
    THEN IF session_state = SESSION_FOCUS
         THEN LET r == log_session(open_ok)
              IN  /\ sessions_file' = r.sessions
                  /\ meta_file' = r.meta
                  /\ session_state' = SESSION_BREAK
                  /\ timer_seconds' = BREAK_DURATION
                  /\ show_notification(
                         "Focus session completed! Break started.", 3)
                  /\ UNCHANGED session_start_time
         ELSE /\ session_state' = SESSION_INACTIVE
              /\ timer_seconds' = FOCUS_DURATION
              /\ show_notification(
                     "Break completed! Ready for next focus session.", 3)
              /\ UNCHANGED <<session_start_time, fileVars>>
    ELSE UNCHANGED <<sessVars, fileVars, notifVars>>

\* The expiry check going on from an expired Focus session through Break
\* to Inactive in one pass
expiry_check_cascading(open_ok) ==
    IF timer_seconds <= 0 /\ session_state # SESSION_INACTIVE
    THEN LET r == IF session_state = SESSION_FOCUS THEN log_session(open_ok)
                  ELSE [sessions |-> sessions_file, meta |-> meta_file]
         IN  /\ sessions_file' = r.sessions
             /\ meta_file' = r.meta
             /\ session_state' = SESSION_INACTIVE
             /\ timer_seconds' = FOCUS_DURATION
             /\ show_notification(
                    "Break completed! Ready for next focus session.", 3)
             /\ UNCHANGED session_start_time
    ELSE UNCHANGED <<sessVars, fileVars, notifVars>>

\* The expiry check starting the next Focus session when a Break expires
expiry_check_restarting(open_ok) ==
    IF timer_seconds <= 0 /\ session_state # SESSION_INACTIVE
    THEN IF session_state = SESSION_FOCUS
         THEN LET r == log_session(open_ok)
              IN  /\ sessions_file' = r.sessions
                  /\ meta_file' = r.meta
                  /\ session_state' = SESSION_BREAK
                  /\ timer_seconds' = BREAK_DURATION
                  /\ show_notification(
                         "Focus session completed! Break started.", 3)
                  /\ UNCHANGED session_start_time
         ELSE /\ session_state' = SESSION_FOCUS
              /\ timer_seconds' = FOCUS_DURATION
              /\ session_start_time' = now
              /\ show_notification(
                     "Break completed! Ready for next focus session.", 3)
              /\ UNCHANGED fileVars
    ELSE UNCHANGED <<sessVars, fileVars, notifVars>>

\* run_timer's check "timer has expired", at the head of an iteration
expiry_check(open_ok) ==
    IF timer_seconds <= 0 /\ session_state # SESSION_INACTIVE
    THEN IF session_state = SESSION_FOCUS
         THEN LET r == log_session(open_ok)
              IN  /\ sessions_file' = r.sessions
                  /\ meta_file' = r.meta
                  /\ session_state' = SESSION_BREAK
                  /\ timer_seconds' = BREAK_DURATION
                  /\ show_notification(
                         "Focus session completed! Break started.", 3)
                  /\ UNCHANGED session_start_time
         ELSE /\ session_state' = SESSION_INACTIVE
              /\ timer_seconds' = FOCUS_DURATION
              /\ show_notification(
                     "Break completed! Ready for next focus session.", 3)
              /\ UNCHANGED <<session_start_time, fileVars>>
    ELSE UNCHANGED <<sessVars, fileVars, notifVars>>

\* The "no input" branch decrementing whatever the session state
poll_timeout_always ==
    /\ timer_seconds' = timer_seconds - 1
    /\ UNCHANGED <<session_state, session_start_time>>

\* run_timer's "no input" branch: the timer is decremented if a session is
\* active
poll_timeout ==
    /\ timer_seconds' = IF session_state # SESSION_INACTIVE
                        THEN timer_seconds - 1 ELSE timer_seconds
    /\ UNCHANGED <<session_state, session_start_time>>

(***************************************************************************)
(* Task operations.  Each says what it does to the list, to the task file  *)
(* and to the notification.                                                *)
(***************************************************************************)
\* add_task without its test of num_tasks
add_task_uncapped(text) ==
    LET added == Append(tasks, [task |-> safe_strncpy(text, MAX_TASK_LEN),
                                done |-> 0])
    IN  /\ tasks' = added
        /\ tasks_file' = save_tasks(added)
        /\ show_notification("Task added", 2)

add_task(text) ==
    IF Len(tasks) >= MAX_TASKS
    THEN /\ show_notification("Maximum number of tasks reached", 2)
         /\ UNCHANGED <<tasks, tasks_file>>
    ELSE LET added == Append(tasks,
                          [task |-> safe_strncpy(text, MAX_TASK_LEN),
                           done |-> 0])
         IN  /\ tasks' = added
             /\ tasks_file' = save_tasks(added)
             /\ show_notification("Task added", 2)

\* mark_task_done without its call of save_tasks
mark_task_done_unsaved(index) ==
    IF index >= 0 /\ index < Len(tasks)
    THEN /\ tasks' = [tasks EXCEPT ![index + 1].done = 1]
         /\ show_notification("Task marked as done", 2)
         /\ UNCHANGED tasks_file
    ELSE /\ show_notification("Invalid task number", 2)
         /\ UNCHANGED <<tasks, tasks_file>>

mark_task_done(index) ==
    IF index >= 0 /\ index < Len(tasks)
    THEN LET marked == [tasks EXCEPT ![index + 1].done = 1]
         IN  /\ tasks' = marked
             /\ tasks_file' = save_tasks(marked)
             /\ show_notification("Task marked as done", 2)
    ELSE /\ show_notification("Invalid task number", 2)
         /\ UNCHANGED <<tasks, tasks_file>>

unmark_task(index) ==
    IF index >= 0 /\ index < Len(tasks)
    THEN LET unmarked == [tasks EXCEPT ![index + 1].done = 0]
         IN  /\ tasks' = unmarked
             /\ tasks_file' = save_tasks(unmarked)
             /\ show_notification("Task unmarked", 2)
    ELSE /\ show_notification("Invalid task number", 2)
         /\ UNCHANGED <<tasks, tasks_file>>

\* display_screen() called after a show_notification of the same second:
\* the notification has not expired and stays
count_on_screen(sessions) ==
    today_sessions' = get_today_sessions_count(sessions, now)

(***************************************************************************)
(* The command line.                                                       *)
(***************************************************************************)
\* strtol(str, &endptr, 10), for numbers of few digits: blanks, an optional
\* sign, digits.  none: endptr == str.
strtol(str) ==
    LET i == SkipBlanks(str, 1)
        signed == i <= Len(str) /\ (str[i] = 45 \/ str[i] = 43)
        j == IF signed THEN i + 1 ELSE i
        none == ~(j <= Len(str) /\ IsDigit(str[j]))
        v == AtoiDigits(str, j, 0)
    IN  [none |-> none,
         value |-> IF none THEN 0
                   ELSE IF signed /\ str[i] = 45 THEN -v ELSE v]

validate_task_number(str) ==
    LET r == strtol(str)
    IN  [ok |-> ~(r.none \/ r.value <= 0 \/ r.value > MAX_TASKS),
         result |-> r.value]

\* parse_command_input: the command type and its argument
parse_command_input(input) ==
    IF Len(input) = 0 \/ Len(input) >= MAX_INPUT_LEN
    THEN [ok |-> FALSE, type |-> "CMD_NONE", argument |-> <<>>]
    ELSE LET cmd_copy == safe_strncpy(input, MAX_INPUT_LEN)
             nl == strchr(cmd_copy, 1, 10)
             c1 == IF nl = 0 THEN cmd_copy ELSE SubSeq(cmd_copy, 1, nl - 1)
             cr == strchr(c1, 1, 13)
             c2 == IF cr = 0 THEN c1 ELSE SubSeq(c1, 1, cr - 1)
             cmd_str == SubSeq(c2, SkipBlanks(c2, 1), Len(c2))
             rest == safe_strncpy(SubSeq(cmd_str, 3, Len(cmd_str)),
                                  MAX_INPUT_LEN)
             with_arg == Len(cmd_str) >= 2
                         /\ (cmd_str[2] = 32 \/ cmd_str[2] = 9)
             cmd(t, arg) == [ok |-> TRUE, type |-> t, argument |-> arg]
         IN  IF Len(cmd_str) = 0 THEN cmd("CMD_NONE", <<>>)
             ELSE IF Len(cmd_str) = 1 /\ cmd_str[1] = 102
                  THEN cmd("CMD_START_FOCUS", <<>>)
             ELSE IF Len(cmd_str) = 1 /\ cmd_str[1] = 98
                  THEN cmd("CMD_START_BREAK", <<>>)
             ELSE IF Len(cmd_str) = 1 /\ cmd_str[1] = 115
                  THEN cmd("CMD_STOP", <<>>)
             ELSE IF Len(cmd_str) = 1 /\ cmd_str[1] = 100
                  THEN cmd("CMD_SKIP", <<>>)
             ELSE IF Len(cmd_str) = 1 /\ cmd_str[1] = 113
                  THEN cmd("CMD_QUIT", <<>>)
             ELSE IF Len(cmd_str) = 1 /\ (cmd_str[1] = 104 \/ cmd_str[1] = 63)
                  THEN cmd("CMD_HELP", <<>>)
             ELSE IF with_arg /\ cmd_str[1] = 97
                  THEN cmd("CMD_ADD_TASK", rest)
             ELSE IF with_arg /\ cmd_str[1] = 116
                  THEN cmd("CMD_SET_FOCUS", rest)
             ELSE IF with_arg /\ cmd_str[1] = 100
                  THEN cmd("CMD_MARK_DONE", rest)
             ELSE IF with_arg /\ cmd_str[1] = 117
                  THEN cmd("CMD_UNMARK", rest)
             ELSE IF with_arg /\ cmd_str[1] = 114
                  THEN cmd("CMD_REMOVE", rest)
             ELSE cmd("CMD_ADD_TASK",
                      safe_strncpy(cmd_str, MAX_INPUT_LEN))

\* execute_command: what it does to the session, the files, the
\* notification, the screen, the tasks and the running flag
execute_command(cmd, open_ok) ==
    LET num == validate_task_number(cmd.argument)
        valid == num.ok /\ num.result > 0 /\ num.result <= Len(tasks)
        invalid == /\ show_notification("Invalid task number", 2)
                   /\ UNCHANGED <<taskVars, sessVars, fileVars,
                                  today_sessions, running>>
        on_task(op) == /\ op
                       /\ UNCHANGED <<current_task_index, focus_task,
                                      sessVars, fileVars, today_sessions,
                                      running>>
    IN  CASE cmd.type = "CMD_ADD_TASK" ->
                 IF Len(cmd.argument) > 0
                 THEN on_task(add_task(cmd.argument))
                 ELSE UNCHANGED <<taskVars, notifVars, sessVars, fileVars,
                                  today_sessions, running>>
          [] cmd.type = "CMD_SET_FOCUS" ->
                 IF Len(cmd.argument) > 0
                 THEN /\ focus_task' = safe_strncpy(cmd.argument, MAX_TASK_LEN)
                      /\ show_notification("Focus task updated", 2)
                      /\ UNCHANGED <<tasks, current_task_index, tasks_file,
                                     sessVars, fileVars, today_sessions,
                                     running>>
                 ELSE UNCHANGED <<taskVars, notifVars, sessVars, fileVars,
                                  today_sessions, running>>
          [] cmd.type = "CMD_MARK_DONE" ->
                 IF valid THEN on_task(mark_task_done(num.result - 1))
                 ELSE invalid
          [] cmd.type = "CMD_UNMARK" ->
                 IF valid THEN on_task(unmark_task(num.result - 1))
                 ELSE invalid
          [] cmd.type = "CMD_REMOVE" ->
                 IF valid THEN on_task(remove_task(num.result - 1))
                 ELSE invalid
          [] cmd.type = "CMD_START_FOCUS" ->
                 start_focus_session /\ UNCHANGED <<taskVars, running>>
          [] cmd.type = "CMD_START_BREAK" ->
                 start_break_session /\ UNCHANGED <<taskVars, running>>
          [] cmd.type = "CMD_STOP" ->
                 stop_session(open_ok) /\ UNCHANGED <<taskVars, running>>
          [] cmd.type = "CMD_SKIP" ->
                 skip_session(open_ok) /\ UNCHANGED <<taskVars, running>>
          [] cmd.type = "CMD_QUIT" ->
                 /\ running' = FALSE
                 /\ UNCHANGED <<taskVars, notifVars, sessVars, fileVars,
                                today_sessions>>
          [] cmd.type = "CMD_HELP" ->
                 /\ display_screen(sessions_file)
                 /\ UNCHANGED <<taskVars, sessVars, fileVars, running>>
          [] OTHER ->
                 UNCHANGED <<taskVars, notifVars, sessVars, fileVars,
                             today_sessions, running>>

\* parse_command, which process_input calls
parse_command(input, open_ok) ==
    LET cmd == parse_command_input(input)
    IN  IF cmd.ok THEN execute_command(cmd, open_ok)
        ELSE UNCHANGED <<taskVars, notifVars, sessVars, fileVars,
                         today_sessions, running>>

\* finish_command_input
finish_command_input(open_ok) ==
    /\ input_mode' = 0
    /\ input_buffer' = <<>>
    /\ show_help' = show_help
    /\ IF Len(input_buffer) > 0 THEN parse_command(input_buffer, open_ok)
       ELSE UNCHANGED <<taskVars, notifVars, sessVars, fileVars,
                        today_sessions, running>>

(***************************************************************************)
(* Keys.  A key is "esc", "enter", "backspace" or a printable character;   *)
(* an upper-case letter in Normal mode does what its lower-case letter     *)
(* does.                                                                   *)
(***************************************************************************)
SessionKeys == {"a", "s", "d", "f"}

\* The code getch returns for a printable key
KeyCode ==
    LET lower == <<"a", "b", "c", "d", "e", "f", "g", "h", "i", "j", "k",
                   "l", "m", "n", "o", "p", "q", "r", "s", "t", "u", "v",
                   "w", "x", "y", "z">>
        digit == <<"0", "1", "2", "3", "4", "5", "6", "7", "8", "9">>
    IN  [c \in {lower[i] : i \in 1..26} |->
            96 + (CHOOSE i \in 1..26 : lower[i] = c)]
        @@ [c \in {digit[i] : i \in 1..10} |->
            47 + (CHOOSE i \in 1..10 : digit[i] = c)]
        @@ (" " :> 32) @@ ("-" :> 45) @@ ("?" :> 63)
        @@ ("[" :> 91) @@ ("]" :> 93)

\* The line a sequence of printable keys types
Line(keys) == [i \in 1..Len(keys) |-> KeyCode[keys[i]]]

\* The command lines typed in the model: task commands with arguments that
\* are and are not task numbers, lines that add a task, the one-letter
\* commands with blanks before and after, and the lines of a whole run
TaskArgs ==
    {<<>>, <<"0">>, <<"-", "1">>, <<"1">>, <<"2">>, <<"9">>, <<"1", "x">>,
     <<"x", "1">>}
TaskLines == {Line(<<c, " ">> \o a) : c \in {"d", "u", "r"}, a \in TaskArgs}
AddLines ==
    {Line(<<"a", " ", "n">>), Line(<<"z", "z">>), Line(<<"z", "z", " ">>),
     Line(<<" ", "z", "z">>)}
CmdLines == TaskLines \cup AddLines
Letters == {"f", "b", "s", "d", "q", "h", "?"}
LetterLines ==
    {Line(<<c>>) : c \in Letters} \cup {Line(<<" ", c>>) : c \in Letters}
    \cup {Line(<<c, " ">>) : c \in Letters}
RunLines == {Line(<<"q">>), Line(<<"a", " ", "n">>)}

\* What a slot tasks[i], i >= num_tasks, can hold: nothing, or the text of
\* a task that was in the list, loaded or added
SlotTexts ==
    {<<>>} \cup {<<c>> : c \in 97..122}
    \cup {parse_command_input(l).argument :
             l \in CmdLines \cup LetterLines \cup RunLines}

\* The Escape key leaving the line typed so far in the buffer
escape_key_keeps_buffer ==
    /\ input_mode' = 0
    /\ display_screen(sessions_file)
    /\ UNCHANGED <<input_buffer, show_help, taskVars, sessVars, fileVars,
                   running>>

\* The Escape key followed by what Enter does
escape_key_submits == finish_command_input(TRUE)

\* if (ch == 27): the Escape key, in either mode
escape_key ==
    /\ input_mode' = 0
    /\ input_buffer' = <<>>
    /\ display_screen(sessions_file)
    /\ UNCHANGED <<show_help, taskVars, sessVars, fileVars, running>>

\* The switch of handle_key_input in Normal mode
normal_key(ch, open_ok) ==
    LET redraw == display_screen(sessions_file)
        nothing == UNCHANGED <<sessVars, fileVars, notifVars, today_sessions,
                               taskVars, inputVars>>
        session_frame == UNCHANGED <<taskVars, inputVars>>
        task_frame == UNCHANGED <<sessVars, fileVars, inputVars>>
    IN  CASE ch = "a" -> start_focus_session /\ session_frame
          [] ch = "s" -> stop_session(open_ok) /\ session_frame
          [] ch = "d" -> skip_session(open_ok) /\ session_frame
          [] ch = "f" -> start_break_session /\ session_frame
          [] ch = "j" ->
                 IF Len(tasks) > 0
                 THEN /\ mark_task_done(current_task_index)
                      /\ current_task_index' =
                             IF current_task_index < Len(tasks) - 1
                             THEN current_task_index + 1
                             ELSE current_task_index
                      /\ count_on_screen(sessions_file)
                      /\ UNCHANGED focus_task
                      /\ task_frame
                 ELSE nothing
          [] ch = "k" ->
                 IF Len(tasks) > 0
                 THEN /\ unmark_task(current_task_index)
                      /\ count_on_screen(sessions_file)
                      /\ UNCHANGED <<current_task_index, focus_task>>
                      /\ task_frame
                 ELSE nothing
          [] ch = "l" ->
                 IF Len(tasks) > 0
                 THEN /\ remove_task(current_task_index)
                      /\ current_task_index' =
                             IF current_task_index >= Len(tasks')
                                /\ current_task_index > 0
                             THEN current_task_index - 1
                             ELSE current_task_index
                      /\ count_on_screen(sessions_file)
                      /\ UNCHANGED focus_task
                      /\ task_frame
                 ELSE nothing
          [] ch = "w" ->
                 IF current_task_index > 0
                 THEN /\ current_task_index' = current_task_index - 1
                      /\ redraw
                      /\ UNCHANGED <<tasks, tasks_file, focus_task>>
                      /\ task_frame
                 ELSE nothing
          [] ch = "x" ->
                 IF current_task_index < Len(tasks) - 1
                 THEN /\ current_task_index' = current_task_index + 1
                      /\ redraw
                      /\ UNCHANGED <<tasks, tasks_file, focus_task>>
                      /\ task_frame
                 ELSE nothing
          [] ch = "enter" ->
                 /\ input_mode' = 1
                 /\ input_buffer' = <<>>
                 /\ UNCHANGED <<show_help, sessVars, fileVars, notifVars,
                                today_sessions, taskVars>>
          [] ch = " " ->
                 IF Len(tasks) > 0
                 THEN /\ \E text \in IF current_task_index < Len(tasks)
                                     THEN {tasks[current_task_index + 1].task}
                                     ELSE SlotTexts :
                             focus_task' = safe_strncpy(text, MAX_TASK_LEN)
                      /\ show_notification("Focus task updated", 2)
                      /\ count_on_screen(sessions_file)
                      /\ UNCHANGED <<tasks, tasks_file, current_task_index>>
                      /\ task_frame
                 ELSE nothing
          [] OTHER -> nothing

\* handle_key_input with the quit key and the Normal-mode switch tried in
\* both modes
handle_key_input_modeless(ch, open_ok) ==
    IF ch = "esc" THEN escape_key
    ELSE IF ch = "q"
    THEN /\ running' = FALSE
         /\ UNCHANGED <<sessVars, fileVars, notifVars, taskVars, inputVars,
                        today_sessions>>
    ELSE IF input_mode = 1 /\ ch = "enter" THEN finish_command_input(open_ok)
    ELSE normal_key(ch, open_ok) /\ UNCHANGED running

\* handle_key_input(ch); open_ok: log_session, if called, can open the log
handle_key_input(ch, open_ok) ==
    IF ch = "esc" THEN escape_key
    ELSE IF input_mode = 0 /\ ch = "q"
    THEN /\ running' = FALSE
         /\ UNCHANGED <<sessVars, fileVars, notifVars, taskVars, inputVars,
                        today_sessions>>
    ELSE IF input_mode = 0 /\ ch \in {"?", "h"}
    THEN /\ show_help' = IF show_help # 0 THEN 0 ELSE 1
         /\ display_screen(sessions_file)
         /\ UNCHANGED <<sessVars, fileVars, taskVars, input_mode,
                        input_buffer, running>>
    ELSE IF input_mode = 0
    THEN normal_key(ch, open_ok) /\ UNCHANGED running
    ELSE IF ch = "enter" THEN finish_command_input(open_ok)
    ELSE IF ch = "backspace"
    THEN /\ input_buffer' = IF Len(input_buffer) > 0
                            THEN SubSeq(input_buffer, 1, Len(input_buffer) - 1)
                            ELSE input_buffer
         /\ UNCHANGED <<input_mode, show_help, sessVars, fileVars, notifVars,
                        taskVars, today_sessions, running>>
    ELSE /\ input_buffer' =
                IF /\ ch \in DOMAIN KeyCode
                   /\ KeyCode[ch] >= 32 /\ KeyCode[ch] < 127
                   /\ Len(input_buffer) < MAX_INPUT_LEN - 1
                THEN Append(input_buffer, KeyCode[ch])
                ELSE input_buffer
         /\ UNCHANGED <<input_mode, show_help, sessVars, fileVars, notifVars,
                        taskVars, today_sessions, running>>

(***************************************************************************)
(* The main loop, run_timer.  pc = "top": at the loop's test; "poll":      *)
(* blocked in getch for at most one second; "exited": after exit.          *)
(* With a resize pending the head of the iteration is taken statement by   *)
(* statement, since SIGWINCH can be delivered between any two:             *)
(* "handle_resize": the flag was found set and handle_resize is entered;   *)
(* "setup_windows": the flag is cleared and the windows are to be made;    *)
(* "expiry": handle_resize has returned, at the expiry check.              *)
(* opens is the set of outcomes fopen(sessions_file, "a") can have.        *)
(***************************************************************************)
Elapsed == (IF session_state = SESSION_FOCUS THEN FOCUS_DURATION
            ELSE BREAK_DURATION) - timer_seconds

\* The log can fail to open only where it is opened
OpenOutcomes(logs, opens) == IF logs THEN opens ELSE {TRUE}

Event(op, ch, arg, ok) ==
    [op |-> op, ch |-> ch, arg |-> arg, ok |-> ok, from |-> session_state,
     line |-> <<>>]

\* What the end of a Focus session (the step taken ends one) adds to the
\* record of completions: the day, the completions on that day, and how
\* many of them changed the counters
Completions ==
    IF session_state = SESSION_FOCUS /\ session_state' # SESSION_FOCUS
    THEN LET same == streak_hist.day = DayOf(now)
             chg == IF meta_file' # meta_file THEN 1 ELSE 0
         IN  [day |-> DayOf(now),
              n |-> IF same THEN streak_hist.n + 1 ELSE 1,
              changes |-> IF same THEN streak_hist.changes + chg ELSE chg]
    ELSE streak_hist

\* while (running): the resize test (no resize pending), the expiry check,
\* the two display updates
LoopTopIn(opens) ==
    /\ \/ pc = "top" /\ running /\ ~resize_pending
       \/ pc = "expiry"
    /\ \E open_ok \in OpenOutcomes(session_state = SESSION_FOCUS
                                   /\ timer_seconds <= 0, opens) :
          /\ expiry_check(open_ok)
          /\ ev' = Event("top", "", 0, open_ok)
    /\ pc' = "poll"
    /\ ticks' = IF session_state' = SESSION_FOCUS THEN ticks ELSE -1
    /\ streak_hist' = Completions
    /\ UNCHANGED <<taskVars, inputVars, running, resize_pending, exitVars,
                   envVars, today_sessions, now, nkeys, idle>>

\* getch returns ERR after one second
PollTimeout ==
    /\ pc = "poll"
    /\ IF ~running \/ resize_pending THEN TRUE
       ELSE IF session_state = SESSION_INACTIVE THEN idle < MaxIdle
       ELSE Elapsed < KeyWindow \/ nkeys <= QuietKeys
    /\ poll_timeout
    /\ now' = now + 1
    /\ pc' = "top"
    /\ ev' = Event("timeout", "", 0, TRUE)
    /\ idle' = IF session_state = SESSION_INACTIVE THEN idle + 1 ELSE idle
    /\ ticks' = IF ticks >= 0 THEN ticks + 1 ELSE ticks
    /\ UNCHANGED <<fileVars, notifVars, taskVars, inputVars, running,
                   resize_pending, exitVars, envVars, today_sessions, nkeys,
                   streak_hist>>

\* getch returns a key
KeyAllowed ==
    /\ pc = "poll"
    /\ nkeys < MaxKeys
    /\ \/ session_state = SESSION_INACTIVE
       \/ Elapsed <= KeyWindow
       \/ timer_seconds <= KeyWindow

\* getch returns a key in Normal mode
PollKeyIn(keys, opens) ==
    /\ KeyAllowed
    /\ input_mode = 0
    /\ \E ch \in keys :
       \E open_ok \in OpenOutcomes(session_state = SESSION_FOCUS
                                   /\ ch \in {"s", "d"}, opens) :
          /\ handle_key_input(ch, open_ok)
          /\ ev' = Event("key", ch, 0, open_ok)
          /\ ticks' = IF ch = "a" /\ session_state = SESSION_INACTIVE
                      THEN 0 ELSE -1
    /\ pc' = "top"
    /\ nkeys' = nkeys + 1
    /\ streak_hist' = Completions
    /\ UNCHANGED <<resize_pending, exitVars, envVars, now, idle>>

\* p is the beginning of l
IsPrefix(p, l) == Len(p) <= Len(l) /\ SubSeq(l, 1, Len(p)) = p

\* The keys that go on typing one of lines, submit it or give it up
TypedKeys(lines) ==
    {"esc", "backspace"}
    \cup {ch \in {"enter"} : input_buffer \in lines \cup {<<>>}}
    \cup {ch \in DOMAIN KeyCode :
             \E l \in lines : IsPrefix(Append(input_buffer, KeyCode[ch]), l)}

\* getch returns a key in Command mode; the event records the buffer the
\* key found
PollTypedIn(lines, opens) ==
    /\ pc = "poll"
    /\ input_mode = 1
    /\ \/ session_state = SESSION_INACTIVE
       \/ Elapsed <= KeyWindow
       \/ timer_seconds <= KeyWindow
    /\ \E ch \in TypedKeys(lines) :
       \E open_ok \in OpenOutcomes(session_state = SESSION_FOCUS
                                   /\ ch = "enter", opens) :
          /\ handle_key_input(ch, open_ok)
          /\ ev' = [Event("key", ch, 0, open_ok) EXCEPT !.line = input_buffer]
    /\ ticks' = IF session_state = SESSION_INACTIVE
                   /\ session_state' = SESSION_FOCUS THEN 0 ELSE -1
    /\ pc' = "top"
    /\ streak_hist' = Completions
    /\ UNCHANGED <<resize_pending, exitVars, envVars, now, nkeys, idle>>

\* SIGINT or SIGTERM is delivered, when a key may be and counted with the
\* keys: signal_handler(sig)
Signal ==
    /\ pc \in {"top", "poll"}
    /\ running
    /\ nkeys < MaxKeys
    /\ \/ session_state = SESSION_INACTIVE
       \/ Elapsed <= KeyWindow
       \/ timer_seconds <= KeyWindow
    /\ \E sig \in {SIGINT, SIGTERM} :
          /\ sig_received' = sig
          /\ ev' = Event("signal", "", sig, TRUE)
    /\ running' = FALSE
    /\ nkeys' = nkeys + 1
    /\ UNCHANGED <<sessVars, fileVars, notifVars, taskVars, inputVars,
                   resize_pending, pc, exit_code, shutdown, envVars,
                   today_sessions, now, idle, ticks, streak_hist>>

\* SIGWINCH is delivered: resize_handler
resize_handler ==
    /\ pc # "exited"
    /\ resize_pending' = TRUE
    /\ resizes' = resizes + 1
    /\ resize_at' = pc
    /\ ev' = Event("SIGWINCH", "", resizes + 1, TRUE)
    /\ UNCHANGED <<sessVars, fileVars, notifVars, taskVars, inputVars,
                   running, pc, exitVars, missing, resizes_read,
                   today_sessions, now, nkeys, idle, ticks, streak_hist>>

\* while (running), if (resize_pending): the flag is found set
ResizeTest ==
    /\ pc = "top" /\ running /\ resize_pending
    /\ pc' = "handle_resize"
    /\ ev' = Event("resize_test", "", 0, TRUE)
    /\ UNCHANGED <<sessVars, fileVars, notifVars, taskVars, inputVars,
                   running, resize_pending, exitVars, envVars,
                   today_sessions, now, nkeys, idle, ticks, streak_hist>>

\* handle_resize: resize_pending = 0
HandleResizeClear ==
    /\ pc = "handle_resize"
    /\ resize_pending' = FALSE
    /\ pc' = "setup_windows"
    /\ ev' = Event("resize_clear", "", 0, TRUE)
    /\ UNCHANGED <<sessVars, fileVars, notifVars, taskVars, inputVars,
                   running, exitVars, envVars, today_sessions, now, nkeys,
                   idle, ticks, streak_hist>>

\* handle_resize without its call of setup_windows
handle_resize_windows_kept ==
    /\ notification_win' = FALSE
    /\ today_sessions' = get_today_sessions_count(sessions_file, now)
    /\ UNCHANGED <<notification_end_time, notification_msg, resizes_read>>

\* handle_resize after the flag: destroy_windows (the notification window
\* with the others), setup_windows (getmaxyx reads the terminal's size),
\* display_screen
handle_resize_windows ==
    /\ notification_win' = FALSE
    /\ resizes_read' = resizes
    /\ today_sessions' = get_today_sessions_count(sessions_file, now)
    /\ UNCHANGED <<notification_end_time, notification_msg>>

HandleResizeWindows ==
    /\ pc = "setup_windows"
    /\ handle_resize_windows
    /\ pc' = "expiry"
    /\ ev' = Event("resize_windows", "", 0, TRUE)
    /\ UNCHANGED <<sessVars, fileVars, taskVars, inputVars, running,
                   resize_pending, exitVars, missing, resizes, resize_at,
                   now, nkeys, idle, ticks, streak_hist>>

\* cleanup_and_exit with endwin() left out
cleanup_and_exit_no_endwin(sig) ==
    /\ tasks_file' = save_tasks(tasks)
    /\ notification_win' = FALSE
    /\ shutdown' = <<"save_tasks", "save_settings", "free_resources">>
    /\ exit_code' = sig
    /\ UNCHANGED fileVars

\* cleanup_and_exit logging the Focus session under way before it saves
cleanup_and_exit_logging(sig) ==
    /\ LET r == IF session_state = SESSION_FOCUS THEN log_session(TRUE)
                ELSE [sessions |-> sessions_file, meta |-> meta_file]
       IN  sessions_file' = r.sessions /\ meta_file' = r.meta
    /\ tasks_file' = save_tasks(tasks)
    /\ notification_win' = FALSE
    /\ shutdown' = <<"save_tasks", "save_settings", "free_resources",
                     "endwin">>
    /\ exit_code' = sig

\* cleanup_and_exit(sig): save_tasks, save_settings, free_resources (which
\* deletes the notification window with the others), endwin, exit(sig);
\* the session log and the meta file are not opened
cleanup_and_exit(sig) ==
    /\ tasks_file' = save_tasks(tasks)
    /\ notification_win' = FALSE
    /\ shutdown' = <<"save_tasks", "save_settings", "free_resources",
                     "endwin">>
    /\ exit_code' = sig
    /\ UNCHANGED fileVars

\* The loop ends and main calls cleanup_and_exit(0)
LoopExit ==
    /\ pc = "top" /\ ~running
    /\ cleanup_and_exit(0)
    /\ pc' = "exited"
    /\ ev' = Event("exit", "", 0, TRUE)
    /\ UNCHANGED <<sessVars, notification_end_time, notification_msg,
                   tasks, current_task_index, focus_task, inputVars, running,
                   resize_pending, sig_received, envVars, today_sessions,
                   now, nkeys, idle, ticks, streak_hist>>

\* initialize_directories with tasks.txt opened in mode "w"
initialize_directories_truncating ==
    /\ tasks_file' = <<>>
    /\ sessions_file' = IF "sessions.csv" \in missing THEN <<>>
                        ELSE sessions_file
    /\ meta_file' = IF "meta" \in missing
                    THEN [streak_max |-> 0, streak_current |-> 0]
                    ELSE meta_file
    /\ missing' = {}

\* initialize_directories, with HOME set and the directory there or made:
\* tasks.txt and sessions.csv are opened in mode "a" and closed, which
\* creates them empty if they are missing; meta is written with both
\* counters 0 if it cannot be opened for reading
initialize_directories ==
    /\ tasks_file' = IF "tasks.txt" \in missing THEN <<>> ELSE tasks_file
    /\ sessions_file' = IF "sessions.csv" \in missing THEN <<>>
                        ELSE sessions_file
    /\ meta_file' = IF "meta" \in missing
                    THEN [streak_max |-> 0, streak_current |-> 0]
                    ELSE meta_file
    /\ missing' = {}

\* The program is run: main, up to its call of run_timer.  The globals
\* have their initial values, the files are what was found or the last run
\* left; load_settings reads the settings file and keeps nothing of it.
main ==
    /\ pc = "exited"
    /\ session_state' = SESSION_INACTIVE
    /\ timer_seconds' = FOCUS_DURATION
    /\ session_start_time' = 0
    /\ focus_task' = <<63, 63, 63>>
    /\ initialize_directories
    /\ tasks' = load_tasks(tasks_file')
    /\ current_task_index' = 0
    /\ input_mode' = 0
    /\ input_buffer' = <<>>
    /\ show_help' = 1
    /\ running' = TRUE
    /\ resize_pending' = FALSE
    /\ notification_win' = FALSE
    /\ notification_end_time' = 0
    /\ notification_msg' = ""
    /\ today_sessions' = get_today_sessions_count(sessions_file', now)
    /\ pc' = "top"
    /\ sig_received' = 0
    /\ exit_code' = -1
    /\ shutdown' = <<>>
    /\ ev' = Event("main", "", 0, TRUE)
    /\ ticks' = -1
    /\ resizes_read' = resizes
    /\ UNCHANGED <<resizes, resize_at, now, nkeys, idle, streak_hist>>

\* With a session log that opens
LoopTop == LoopTopIn({TRUE})
PollKey == PollKeyIn(SessionKeys \cup {"q"}, {TRUE})

(***************************************************************************)
(* The state main() leaves when it calls run_timer.  The two files are     *)
(* what earlier runs left: nothing, or a session of the day before and     *)
(* the counters of a streak.                                               *)
(***************************************************************************)
StartTimes == {SECS_PER_DAY + 43200, 2 * SECS_PER_DAY - 1}
FreshFiles == [sessions |-> <<>>,
               meta |-> [streak_max |-> 0, streak_current |-> 0]]
UsedFiles == [sessions |-> <<SessionLine(36000, 36000 + FOCUS_DURATION,
                                         <<63, 63, 63>>)>>,
              meta |-> [streak_max |-> 5, streak_current |-> 3]]

InitProgram ==
    /\ session_state = SESSION_INACTIVE
    /\ timer_seconds = FOCUS_DURATION
    /\ session_start_time = 0
    /\ focus_task = <<63, 63, 63>>
    /\ current_task_index = 0
    /\ input_mode = 0
    /\ input_buffer = <<>>
    /\ show_help = 1
    /\ running = TRUE
    /\ resize_pending = FALSE
    /\ notification_win = FALSE
    /\ notification_end_time = 0
    /\ notification_msg = ""
    /\ pc = "top"
    /\ sig_received = 0
    /\ exit_code = -1
    /\ shutdown = <<>>
    /\ missing = {}
    /\ resizes = 0
    /\ resizes_read = 0
    /\ resize_at = ""
    /\ ev = [op |-> "init", ch |-> "", arg |-> 0, ok |-> TRUE,
             from |-> SESSION_INACTIVE, line |-> <<>>]
    /\ nkeys = 0
    /\ idle = 0
    /\ ticks = -1
    /\ streak_hist = [day |-> -1, n |-> 0, changes |-> 0]

Init ==
    /\ InitProgram
    /\ tasks = <<>>
    /\ tasks_file = <<>>
    /\ now \in StartTimes
    /\ \E f \in {FreshFiles, UsedFiles} :
          /\ sessions_file = f.sessions
          /\ meta_file = f.meta
    /\ today_sessions = get_today_sessions_count(sessions_file, now)

Next == LoopTop \/ PollTimeout \/ PollKey \/ LoopExit

Spec == Init /\ [][Next]_vars

(***************************************************************************)
(* The session log as any earlier run, or an editor, may have left it:     *)
(* lines put together from a date field, well formed or not, and a rest    *)
(* with or without its commas and quotes.  The help key redraws the        *)
(* screen, which counts today's sessions.                                  *)
(***************************************************************************)
MaxLogLines == 2

Noon == SECS_PER_DAY + 43200
DateFields ==
    {DateStr(Noon), DateStr(Noon - SECS_PER_DAY),
     DateStr(Noon) \o <<120>>,
     SubSeq(DateStr(Noon), 1, 9),
     <<>>}
LineRests ==
    {<<44, 49, 48, 58, 48, 48, 44, 54, 48, 44, 34, 97, 34>>,
     <<44, 49, 48, 58, 48, 48, 44, 54, 48, 44, 34, 97>>,
     <<44, 49, 48, 58, 48, 48, 44, 54, 48, 44, 97>>,
     <<44, 49, 48, 58, 48, 48, 44, 54, 48>>,
     <<44, 49, 48, 58, 48, 48>>,
     <<44, 44, 44, 34, 34>>,
     <<>>}
SampleLines == {d \o r : d \in DateFields, r \in LineRests}
SampleLogs ==
    UNION {[1..n -> SampleLines] : n \in 0..MaxLogLines}

InitLog ==
    /\ InitProgram
    /\ tasks = <<>>
    /\ tasks_file = <<>>
    /\ now = Noon
    /\ sessions_file \in SampleLogs
    /\ meta_file = UsedFiles.meta
    /\ today_sessions = get_today_sessions_count(sessions_file, now)

HelpKey == PollKeyIn({"?"}, {TRUE})

NextLog == LoopTop \/ PollTimeout \/ HelpKey

SpecLog == InitLog /\ [][NextLog]_vars

(***************************************************************************)
(* The task list as load_tasks may have left it, and remove_task called    *)
(* on it with an index in and out of its range.                            *)
(***************************************************************************)
MaxTaskCount == 3

TaskTexts == {<<97>>, <<98>>}
SampleTasks == [task : TaskTexts, done : {0, 1}]
SampleTaskLists == UNION {[1..n -> SampleTasks] : n \in 0..MaxTaskCount}

InitTasks ==
    /\ InitProgram
    /\ tasks \in SampleTaskLists
    /\ tasks_file = save_tasks(tasks)
    /\ now = Noon
    /\ sessions_file = FreshFiles.sessions
    /\ meta_file = FreshFiles.meta
    /\ today_sessions = 0

CallRemoveTask ==
    /\ \E index \in -1..(Len(tasks) + 1) :
          /\ remove_task(index)
          /\ ev' = Event("remove_task", "", index, TRUE)
    /\ UNCHANGED <<sessVars, fileVars, current_task_index, focus_task,
                   inputVars, loopVars, exitVars, envVars, today_sessions,
                   now, nkeys, idle, ticks, streak_hist>>

NextTasks == CallRemoveTask

SpecTasks == InitTasks /\ [][NextTasks]_vars

(***************************************************************************)
(* The task keys and the command line.  The task file is what an earlier   *)
(* run or an editor left: up to MaxTaskCount tasks a, b, c.., every second *)
(* one done; main loads it.  Each specification types its own lines and    *)
(* presses its own keys, a bounded number of them.                         *)
(***************************************************************************)
MaxSelKeys == 3     \* keys pressed in Normal mode, selection and removal
MaxCmdLines == 1    \* task command lines typed
MaxLetterLines == 2 \* one-letter command lines typed
MaxFullKeys == 2    \* keys pressed in Normal mode with the list near full

NumberedTasks(n) ==
    [i \in 1..n |-> [task |-> <<97 + ((i - 1) % 26)>>, done |-> (i - 1) % 2]]

InitWithTasks(counts) ==
    /\ InitProgram
    /\ \E n \in counts : tasks_file = save_tasks(NumberedTasks(n))
    /\ tasks = load_tasks(tasks_file)
    /\ now = Noon
    /\ sessions_file = FreshFiles.sessions
    /\ meta_file = FreshFiles.meta
    /\ today_sessions = 0

\* Selection and removal: the task keys, and the lines "r 1" and "r 2"
SelLines == {Line(<<"r", " ", "1">>), Line(<<"r", " ", "2">>)}
TaskKeys == {"j", "k", "l", "w", "x", " ", "enter"}
InitSel == InitWithTasks(0..MaxTaskCount)
SelKey == nkeys < MaxSelKeys /\ PollKeyIn(TaskKeys, {TRUE})
SelTyped == PollTypedIn(SelLines, {TRUE})
NextSel == LoopTop \/ PollTimeout \/ SelKey \/ SelTyped
SpecSel == InitSel /\ [][NextSel]_vars

\* Task commands: the Enter key and the lines of CmdLines
InitCmd == InitWithTasks(0..MaxTaskCount)
CmdKey == nkeys < MaxCmdLines /\ PollKeyIn({"enter"}, {TRUE})
CmdTyped == PollTypedIn(CmdLines, {TRUE})
NextCmd == LoopTop \/ PollTimeout \/ CmdKey \/ CmdTyped
SpecCmd == InitCmd /\ [][NextCmd]_vars

\* One-letter commands: the Enter key and the lines of LetterLines, with
\* two tasks in the list; a session started is not left to run longer than
\* KeyWindow seconds
InitLetters == InitWithTasks({2})
LettersKey == nkeys < MaxLetterLines /\ PollKeyIn({"enter"}, {TRUE})
LettersTyped == PollTypedIn(LetterLines, {TRUE})
LettersTimeout ==
    /\ session_state = SESSION_INACTIVE \/ Elapsed < KeyWindow
    /\ PollTimeout
NextLetters == LoopTop \/ LettersTimeout \/ LettersKey \/ LettersTyped
SpecLetters == InitLetters /\ [][NextLetters]_vars

\* The list near its limit: a file of MAX_TASKS - 1, MAX_TASKS and
\* MAX_TASKS + 1 lines, the keys Enter and 'l', lines that add a task
FullLines == {Line(<<"a", " ", "n">>), Line(<<"z", "z">>)}
InitFull == InitWithTasks({MAX_TASKS - 1, MAX_TASKS, MAX_TASKS + 1})
FullKey == nkeys < MaxFullKeys /\ PollKeyIn({"enter", "l"}, {TRUE})
FullTyped == PollTypedIn(FullLines, {TRUE})
NextFull == LoopTop \/ PollTimeout \/ FullKey \/ FullTyped
SpecFull == InitFull /\ [][NextFull]_vars

(***************************************************************************)
(* The task list written and read back.  The program stands at its loop's  *)
(* head with a list that was loaded or built by commands and saved: up to  *)
(* MaxStoreLen tasks with texts that hold brackets, a blank, nothing, or    *)
(* as many characters as a task holds, or MAX_TASKS tasks.  It is left     *)
(* with 'q' and run again.                                                 *)
(***************************************************************************)
MaxStoreLen == 2

StoreTexts ==
    {<<97>>, <<91>>, <<93>>, <<91, 88, 93, 32, 97>>, <<32, 97, 32>>, <<>>,
     [i \in 1..(MAX_TASK_LEN - 1) |-> IF i % 2 = 0 THEN 93 ELSE 91]}
StoreTasks == [task : StoreTexts, done : {0, 1}]
StoreLists ==
    UNION {[1..n -> StoreTasks] : n \in 0..MaxStoreLen}
    \cup {[i \in 1..MAX_TASKS |->
              [task |-> <<91, 97 + (i % 26), 93>>, done |-> i % 2]]}

InitStore ==
    /\ InitProgram
    /\ tasks \in StoreLists
    /\ tasks_file = save_tasks(tasks)
    /\ now = Noon
    /\ sessions_file = FreshFiles.sessions
    /\ meta_file = FreshFiles.meta
    /\ today_sessions = 0

QuitKey == PollKeyIn({"q"}, {TRUE})
NextStore == LoopTop \/ QuitKey \/ LoopExit \/ main
SpecStore == InitStore /\ [][NextStore]_vars

(***************************************************************************)
(* Whole runs of the program: sessions started, stopped and skipped by     *)
(* key, the lines of RunLines typed, a signal delivered at any point of    *)
(* the loop, the loop left, and the program run again.                     *)
(***************************************************************************)
MaxRunKeys == 2     \* keys pressed in Normal mode and signals delivered

RunKey ==
    nkeys < MaxRunKeys /\ PollKeyIn({"a", "s", "d", "q", "enter"}, {TRUE})
RunTyped == PollTypedIn(RunLines, {TRUE})
RunSignal == nkeys < MaxRunKeys /\ Signal
NextRun ==
    \/ LoopTop \/ PollTimeout \/ RunKey \/ RunTyped \/ RunSignal
    \/ LoopExit \/ main
SpecRun == Init /\ [][NextRun]_vars

(***************************************************************************)
(* Leaving the program: the quit key, the line `q`, a signal, with a       *)
(* session started or none; a session is not left to run longer than       *)
(* KeyWindow seconds.  getch returns within a second, with a key or        *)
(* without, and main calls cleanup_and_exit once the loop has ended: the   *)
(* two fairness conditions.                                                *)
(***************************************************************************)
MaxQuitKeys == 2    \* keys pressed in Normal mode and signals delivered

QuitLines == {Line(<<"q">>)}
LeaveKey == nkeys < MaxQuitKeys /\ PollKeyIn({"a", "q", "enter"}, {TRUE})
LeaveTyped == PollTypedIn(QuitLines, {TRUE})
LeaveSignal == nkeys < MaxQuitKeys /\ Signal
LeaveTimeout ==
    /\ ~running \/ session_state = SESSION_INACTIVE \/ Elapsed < KeyWindow
    /\ PollTimeout
NextQuit ==
    \/ LoopTop \/ LeaveTimeout \/ LeaveKey \/ LeaveTyped \/ LeaveSignal
    \/ LoopExit \/ main
SpecQuit ==
    /\ Init /\ [][NextQuit]_vars
    /\ WF_vars(LeaveTimeout \/ LeaveKey \/ LeaveTyped)
    /\ WF_vars(LoopExit)

(***************************************************************************)
(* Start-up.  The program has not been run: each of the three files is     *)
(* there or missing, and what is there was left by earlier runs or by an   *)
(* editor.  It is run, left with 'q', and run again.                       *)
(***************************************************************************)
MaxStartKeys == 1    \* times the program is left

FileNames == {"tasks.txt", "sessions.csv", "meta"}

\* tasks.txt as found: nothing, two tasks, a line that is no task between
\* two that are, one task more than the list holds
FoundTaskFiles ==
    {<<>>,
     save_tasks(NumberedTasks(2)),
     <<TaskLine([task |-> <<97>>, done |-> 1]), <<110, 111>>,
       TaskLine([task |-> <<98>>, done |-> 0])>>,
     save_tasks(NumberedTasks(MAX_TASKS + 1))}

InitStart ==
    /\ session_state = SESSION_INACTIVE
    /\ timer_seconds = FOCUS_DURATION
    /\ session_start_time = 0
    /\ focus_task = <<63, 63, 63>>
    /\ tasks = <<>>
    /\ current_task_index = 0
    /\ input_mode = 0
    /\ input_buffer = <<>>
    /\ show_help = 1
    /\ running = TRUE
    /\ resize_pending = FALSE
    /\ notification_win = FALSE
    /\ notification_end_time = 0
    /\ notification_msg = ""
    /\ today_sessions = 0
    /\ pc = "exited"
    /\ sig_received = 0
    /\ exit_code = -1
    /\ shutdown = <<>>
    /\ missing \in SUBSET FileNames
    /\ tasks_file \in FoundTaskFiles
    /\ \E f \in {FreshFiles, UsedFiles} : sessions_file = f.sessions
    /\ \E f \in {FreshFiles, UsedFiles} : meta_file = f.meta
    /\ now = Noon
    /\ resizes = 0
    /\ resizes_read = 0
    /\ resize_at = ""
    /\ ev = [op |-> "init", ch |-> "", arg |-> 0, ok |-> TRUE,
             from |-> SESSION_INACTIVE, line |-> <<>>]
    /\ nkeys = 0
    /\ idle = 0
    /\ ticks = -1
    /\ streak_hist = [day |-> -1, n |-> 0, changes |-> 0]

StartQuitKey == nkeys < MaxStartKeys /\ PollKeyIn({"q"}, {TRUE})
NextStart == main \/ LoopTop \/ StartQuitKey \/ LoopExit
SpecStart == InitStart /\ [][NextStart]_vars

(***************************************************************************)
(* Resizes.  SIGWINCH is delivered at any point of the loop, up to         *)
(* MaxResizes times, while the program is idle, a session is started, or   *)
(* a Focus session started 1499 seconds ago has one second left.  The      *)
(* loop goes on taking its steps as long as it can (weak fairness of the   *)
(* loop's steps together, written with the condition under which a step    *)
(* can be taken): getch returns within a second.                           *)
(***************************************************************************)
MaxResizes == 2       \* SIGWINCH signals delivered
MaxResizeKeys == 2    \* keys pressed, the one that started the session
                      \* under way counted

InitNearExpiry ==
    /\ session_state = SESSION_FOCUS
    /\ timer_seconds = 1
    /\ now \in {t + FOCUS_DURATION - 1 : t \in StartTimes}
    /\ session_start_time = now - (FOCUS_DURATION - 1)
    /\ focus_task = <<63, 63, 63>>
    /\ tasks = <<>>
    /\ tasks_file = <<>>
    /\ current_task_index = 0
    /\ input_mode = 0
    /\ input_buffer = <<>>
    /\ show_help = 1
    /\ running = TRUE
    /\ resize_pending = FALSE
    /\ notification_win = TRUE
    /\ notification_end_time = session_start_time + 2
    /\ notification_msg = "Focus session started"
    /\ sessions_file = FreshFiles.sessions
    /\ meta_file = FreshFiles.meta
    /\ today_sessions = 0
    /\ pc = "top"
    /\ sig_received = 0
    /\ exit_code = -1
    /\ shutdown = <<>>
    /\ missing = {}
    /\ resizes = 0
    /\ resizes_read = 0
    /\ resize_at = ""
    /\ ev = [op |-> "timeout", ch |-> "", arg |-> 0, ok |-> TRUE,
             from |-> SESSION_FOCUS, line |-> <<>>]
    /\ nkeys = 1
    /\ idle = 0
    /\ ticks = FOCUS_DURATION - 1
    /\ streak_hist = [day |-> -1, n |-> 0, changes |-> 0]

InitResize == Init \/ InitNearExpiry

ResizeSignal == resizes < MaxResizes /\ resize_handler
ResizeKey == nkeys < MaxResizeKeys /\ PollKeyIn({"a", "q"}, {TRUE})
ResizeTimeout ==
    /\ \/ ~running \/ resize_pending
       \/ session_state = SESSION_INACTIVE
       \/ Elapsed < KeyWindow
       \/ timer_seconds <= KeyWindow
    /\ PollTimeout
NextResize ==
    \/ ResizeSignal \/ ResizeTest \/ HandleResizeClear \/ HandleResizeWindows
    \/ LoopTop \/ ResizeTimeout \/ ResizeKey \/ LoopExit
LoopStep ==
    \/ ResizeTest \/ HandleResizeClear \/ HandleResizeWindows
    \/ LoopTop \/ ResizeTimeout \/ ResizeKey \/ LoopExit
LoopCanStep ==
    /\ pc # "exited"
    /\ pc = "poll" => (resize_pending \/ ~running)
SpecResize ==
    /\ InitResize /\ [][NextResize]_vars
    /\ ([]<>~LoopCanStep) \/ ([]<><<LoopStep>>_vars)

(***************************************************************************)
(* The session machine with a session log that may fail to open for        *)
(* append each time a Focus session ends.                                  *)
(***************************************************************************)
MaxFailKeys == 3    \* key events in one run

FailTop == LoopTopIn(BOOLEAN)
FailKey == nkeys < MaxFailKeys /\ PollKeyIn({"a", "s", "d"}, BOOLEAN)
NextFail == FailTop \/ PollTimeout \/ FailKey
SpecFail == Init /\ [][NextFail]_vars

(***************************************************************************)
(* A line typed to the end of the input buffer and beyond: the key 'z'     *)
(* held down in Command mode, with Backspace, Escape, and Enter on the     *)
(* empty and on the full buffer.                                           *)
(***************************************************************************)
MaxLongKeys == 2    \* times Command mode is entered

LongLines ==
    {[i \in 1..(MAX_INPUT_LEN - 1) |-> 122],
     [i \in 1..(MAX_INPUT_LEN + 1) |-> 122]}
LongKey == nkeys < MaxLongKeys /\ PollKeyIn({"enter"}, {TRUE})
LongTyped == PollTypedIn(LongLines, {TRUE})
NextLong == LoopTop \/ PollTimeout \/ LongKey \/ LongTyped
SpecLong == InitWithTasks({0}) /\ [][NextLong]_vars

(***************************************************************************)
(* Sessions across days. time(NULL) is the wall clock, while timer_seconds *)
(* counts the polls that timed out: when the process is stopped and        *)
(* continued (SIGSTOP, a suspended machine) during a poll, the clock has   *)
(* moved on by whole days and the timer has not. SpecStreak adds that to   *)
(* the loop, with the keys that start and stop a session.                  *)
(***************************************************************************)
MaxStreakKeys == 2
MaxDay == 4
SuspendDays == {1, 2}

\* The process is stopped while it waits in getch, when a key may arrive,
\* and continued d days later: start_focus_session, log_session and
\* update_streaks read time(NULL) afterwards
Suspend ==
    /\ KeyAllowed
    /\ running
    /\ \E d \in SuspendDays :
          /\ DayOf(now) + d <= MaxDay
          /\ now' = now + d * SECS_PER_DAY
          /\ ev' = Event("suspend", "", d, TRUE)
    /\ UNCHANGED <<sessVars, fileVars, notifVars, taskVars, inputVars,
                   loopVars, exitVars, envVars, today_sessions, nkeys, idle,
                   ticks, streak_hist>>

StreakKey == nkeys < MaxStreakKeys /\ PollKeyIn({"a", "s"}, {TRUE})
NextStreak == LoopTop \/ PollTimeout \/ StreakKey \/ Suspend
SpecStreak == Init /\ [][NextStreak]_vars

(***************************************************************************)
(* Letters typed in Command mode.  SpecType starts with two tasks; the     *)
(* keys 'a' and Enter are pressed in Normal mode, so that the input line   *)
(* is opened with no session and during a Focus session, and each of the   *)
(* letters that are keys of Normal mode is typed on it.                    *)
(***************************************************************************)
MaxTypeKeys == 2
TypeLines == {Line(<<c>>) : c \in SessionKeys \cup {"q", "h", "?", "j"}}

TypeKey == nkeys < MaxTypeKeys /\ PollKeyIn({"a", "enter"}, {TRUE})
TypeTyped == PollTypedIn(TypeLines, {TRUE})
NextType == LoopTop \/ PollTimeout \/ TypeKey \/ TypeTyped
SpecType == InitWithTasks({2}) /\ [][NextType]_vars

(***************************************************************************)
(* The loop left alone.  SpecIdle takes no more than QuietKeys key events, *)
(* which start a Focus session or a Break or skip, so that every session   *)
(* started may run to its end by timeouts.  run_timer has no statement     *)
(* that blocks but getch, and getch returns after one second at most:      *)
(* whenever the loop can take a step of its own, it takes one.             *)
(***************************************************************************)
IdleKey == nkeys < QuietKeys /\ PollKeyIn({"a", "f", "d"}, {TRUE})
NextIdle == LoopTop \/ PollTimeout \/ IdleKey
IdleStep == LoopTop \/ PollTimeout
IdleCanStep ==
    \/ pc = "top"
    \/ pc = "poll" /\ (session_state = SESSION_INACTIVE => idle < MaxIdle)
SpecIdle ==
    /\ InitWithTasks({0}) /\ [][NextIdle]_vars
    /\ ([]<>~IdleCanStep) \/ ([]<><<IdleStep>>_vars)

(***************************************************************************)
(* The claims.                                                             *)
(***************************************************************************)
SessionStates == {SESSION_INACTIVE, SESSION_FOCUS, SESSION_BREAK}

\* The value remaining_seconds is set to on entering a state
ResetValue(st) == IF st = SESSION_BREAK THEN BREAK_DURATION ELSE FOCUS_DURATION

\* The step taken is a start_focus or a start_break
IsStart == ev'.op = "key" /\ ev'.ch \in {"a", "f"}
\* The step taken is a stop
IsStop == ev'.op = "key" /\ ev'.ch = "s"
\* The step taken ends a Focus session, a Break session
EndsFocus == session_state = SESSION_FOCUS /\ session_state' # SESSION_FOCUS
EndsBreak == session_state = SESSION_BREAK /\ session_state' # SESSION_BREAK
\* The step taken appends exactly one line to the session log
AppendsOne ==
    /\ Len(sessions_file') = Len(sessions_file) + 1
    /\ SubSeq(sessions_file', 1, Len(sessions_file)) = sessions_file

\* C1: session_state is always Inactive, Focus or Break, and a start_focus
\* or start_break issued while session_state is not Inactive changes none
\* of session_state, remaining_seconds, session_start and the session log.
C1_StartIsNoOpWhenActive ==
    [][/\ session_state \in SessionStates
       /\ session_state' \in SessionStates
       /\ (IsStart /\ session_state # SESSION_INACTIVE) =>
              UNCHANGED <<session_state, timer_seconds, session_start_time,
                          sessions_file>>]_vars

\* C1's case: a start was issued during a session and turned down
C1_Witness ==
    /\ ev.op = "key" /\ ev.ch \in {"a", "f"}
    /\ ev.from # SESSION_INACTIVE
    /\ notification_msg = "Session already active"

\* C2: with a session log that can be written, the end of a Focus session
\* (by stop, skip or expiry) appends exactly one entry to the log, the end
\* of a Break session appends none, and nothing else appends one.
C2_OneEntryPerFocusSession ==
    [][/\ EndsFocus => AppendsOne
       /\ EndsBreak => sessions_file' = sessions_file
       /\ sessions_file' # sessions_file => EndsFocus]_vars

\* C2's case: the log has grown to two entries and a Break session has
\* run out without adding one
C2_Witness ==
    /\ ev.op = "top" /\ ev.from = SESSION_BREAK
    /\ session_state = SESSION_INACTIVE
    /\ Len(sessions_file) = 2

\* C3 as claimed: a stop issued while Break or Inactive is turned down:
\* session_state and remaining_seconds unchanged, the notice "No active
\* session", no log entry.
C3_AsClaimed ==
    [][(IsStop /\ session_state # SESSION_FOCUS) =>
           /\ UNCHANGED <<session_state, timer_seconds>>
           /\ notification_msg' = "No active session"
           /\ sessions_file' = sessions_file]_vars

\* C3 amended: a stop issued while Inactive is turned down (session_state
\* and remaining_seconds unchanged, the notice "No active session", no log
\* entry); a stop issued while Break ends the break: session_state becomes
\* Inactive, remaining_seconds 1500, the notice is "Session stopped", and
\* no log entry is appended.
C3_StopOutsideFocus ==
    [][/\ (IsStop /\ session_state = SESSION_INACTIVE) =>
              /\ UNCHANGED <<session_state, timer_seconds>>
              /\ notification_msg' = "No active session"
              /\ sessions_file' = sessions_file
       /\ (IsStop /\ session_state = SESSION_BREAK) =>
              /\ session_state' = SESSION_INACTIVE
              /\ timer_seconds' = FOCUS_DURATION
              /\ notification_msg' = "Session stopped"
              /\ sessions_file' = sessions_file]_vars

\* C3's case: a Break session was stopped
C3_Witness ==
    /\ ev.op = "key" /\ ev.ch = "s" /\ ev.from = SESSION_BREAK
    /\ session_state = SESSION_INACTIVE

\* C4: after start_focus from Inactive and poll timeouts only, the machine
\* is in Focus with remaining_seconds = 1500 - (timeouts so far) until 1500
\* timeouts have occurred; the next loop iteration moves it to Break with
\* remaining_seconds = 300 and appends exactly one log entry, whose duration
\* is the time since the session's start, 1500.
C4_FocusRunsOut ==
    [][/\ (ticks' >= 0 /\ ticks' <= FOCUS_DURATION) =>
              /\ session_state' = SESSION_FOCUS
              /\ timer_seconds' = FOCUS_DURATION - ticks'
       /\ (ticks >= 0 /\ ticks < FOCUS_DURATION /\ ev'.op # "key") =>
              session_state' = SESSION_FOCUS
       /\ (ticks = FOCUS_DURATION /\ ev'.op = "top") =>
              /\ session_state' = SESSION_BREAK
              /\ timer_seconds' = BREAK_DURATION
              /\ AppendsOne
              /\ LET e == parse_csv_line(sessions_file'[Len(sessions_file')])
                 IN  /\ e.ok
                     /\ e.duration = now - session_start_time
                     /\ e.duration = FOCUS_DURATION]_vars

\* C4's case: the Focus session started 1500 timeouts ago has just ended
C4_Witness ==
    /\ ev.op = "top" /\ ev.from = SESSION_FOCUS
    /\ session_state = SESSION_BREAK
    /\ timer_seconds = BREAK_DURATION
    /\ now - session_start_time = FOCUS_DURATION
    /\ nkeys = 1

\* C5: a poll timeout decrements remaining_seconds by exactly 1 if a
\* session is active and leaves it alone if none is; while session_state
\* stays what it is remaining_seconds changes only by such a timeout, one
\* per iteration (a timeout ends the iteration); a key and the loop's head
\* change it only with a transition, to the value that transition sets.
C5_TickPolicy ==
    [][/\ ev'.op = "timeout" =>
              /\ pc = "poll" /\ pc' = "top"
              /\ session_state' = session_state
              /\ timer_seconds' = IF session_state # SESSION_INACTIVE
                                  THEN timer_seconds - 1 ELSE timer_seconds
       /\ ev'.op \in {"key", "top"} =>
              \/ timer_seconds' = timer_seconds
              \/ /\ session_state' # session_state
                 /\ timer_seconds' = ResetValue(session_state')
       /\ (session_state' = session_state /\ timer_seconds' # timer_seconds) =>
              /\ ev'.op = "timeout"
              /\ session_state # SESSION_INACTIVE
              /\ timer_seconds' = timer_seconds - 1
       /\ ev'.op = "top" => pc = "top" /\ pc' = "poll"]_vars

\* C5's case: a timeout has taken a Break session from 300 to 299, in a run
\* in which a timeout while Inactive left remaining_seconds alone
C5_Witness ==
    /\ ev.op = "timeout" /\ ev.from = SESSION_BREAK
    /\ timer_seconds = BREAK_DURATION - 1
    /\ idle > 0

\* What a reader of the log takes a line to be: an entry is a line of four
\* fields date,time,duration,"label", and its date is the whole first field
IsEntry(line) ==
    LET commas == {k \in 1..Len(line) : line[k] = 44}
        quotes == {k \in 1..Len(line) : line[k] = 34}
    IN  /\ Cardinality(commas) >= 3
        /\ LET c3 == CHOOSE k \in commas :
                         Cardinality({j \in commas : j < k}) = 2
            IN  /\ c3 + 1 \in quotes
                /\ \E q \in quotes : q > c3 + 1
EntryDate(line) == SubSeq(line, 1, strchr(line, 1, 44) - 1)
HasEntryDated(sessions, date) ==
    \E i \in 1..Len(sessions) :
        IsEntry(sessions[i]) /\ EntryDate(sessions[i]) = date

\* The step taken logs a Focus session that started and ends today
LogsSessionOfToday ==
    /\ EndsFocus /\ AppendsOne
    /\ DayOf(session_start_time) = DayOf(now)

\* C6: when a Focus session that started and completes on date D is logged,
\* the log held no entry dated D before and holds one dated D-1, then
\* current_streak goes up by exactly 1 and max_streak becomes the larger of
\* the old max_streak and the new current_streak.
C6_AsClaimed ==
    [][(/\ LogsSessionOfToday
        /\ ~HasEntryDated(sessions_file, DateStr(now))
        /\ HasEntryDated(sessions_file, DateStr(now - SECS_PER_DAY))) =>
           /\ meta_file'.streak_current = meta_file.streak_current + 1
           /\ meta_file'.streak_max =
                  IF meta_file'.streak_current > meta_file.streak_max
                  THEN meta_file'.streak_current
                  ELSE meta_file.streak_max]_vars

\* C7: when a Focus session that started and completes on date D is logged
\* and the log held no entry dated D before and holds none dated D-1, then
\* current_streak is 1 in the meta file.
C7_AsClaimed ==
    [][(/\ LogsSessionOfToday
        /\ ~HasEntryDated(sessions_file, DateStr(now))
        /\ ~HasEntryDated(sessions_file, DateStr(now - SECS_PER_DAY))) =>
           meta_file'.streak_current = 1]_vars

\* C8: of the Focus sessions completed on one calendar day only the first
\* may change current_streak or max_streak: a completion on a day that has
\* seen one leaves the meta file as it is, the counters change at no other
\* step, and so at most once a day.
C8_StreakChangesOncePerDay ==
    [][/\ (EndsFocus /\ streak_hist.day = DayOf(now) /\ streak_hist.n >= 1) =>
              meta_file' = meta_file
       /\ meta_file' # meta_file => EndsFocus
       /\ streak_hist'.changes <= 1]_vars

\* C8's case: a second Focus session completed on a day whose first
\* completion changed the counters
C8_Witness ==
    /\ ev.from = SESSION_FOCUS /\ session_state # SESSION_FOCUS
    /\ streak_hist.day = DayOf(now)
    /\ streak_hist.n >= 2
    /\ streak_hist.changes = 1

\* The log entries dated the day of t, as the claim counts them
EntriesDated(sessions, t) ==
    Cardinality({i \in 1..Len(sessions) :
        IsEntry(sessions[i]) /\ EntryDate(sessions[i]) = DateStr(t)})

\* C9: for any log content get_today_sessions_count returns the number of
\* entries (date, time, duration, quoted label) whose date field is today's
\* date; malformed lines and lines of another date count 0; the query
\* changes neither the log nor the counters.
C9_AsClaimed ==
    [][(ev'.op = "key" /\ ev'.ch = "?") =>
           /\ today_sessions' = EntriesDated(sessions_file, now)
           /\ UNCHANGED <<sessions_file, meta_file>>]_vars

\* C10: remove_task(i) with 0 <= i <= n-1 leaves n-1 tasks, those before i
\* where they were and those after i one place down, text and done flag
\* as they were; with any other i it leaves the list as it is.
C10_RemoveShiftsDown ==
    [][ev'.op = "remove_task" =>
           LET i == ev'.arg
               n == Len(tasks)
           IN  IF i >= 0 /\ i <= n - 1
               THEN /\ Len(tasks') = n - 1
                    /\ \A j \in 0..(n - 1) :
                          /\ j < i => tasks'[j + 1] = tasks[j + 1]
                          /\ j > i => tasks'[j] = tasks[j + 1]
               ELSE tasks' = tasks]_vars

\* C10's case: the first of three tasks was removed and two different ones
\* moved down
C10_Witness ==
    /\ ev.op = "remove_task" /\ ev.arg = 0
    /\ notification_msg = "Task removed"
    /\ Len(tasks) = 2
    /\ tasks[1] # tasks[2]

\* C11: after any sequence of keys and submitted commands the selection
\* satisfies 0 <= current_task_index, and current_task_index <= num_tasks - 1
\* whenever num_tasks > 0.
C11_AsClaimed ==
    /\ 0 <= current_task_index
    /\ Len(tasks) > 0 => current_task_index <= Len(tasks) - 1

\* C12: for a list of N tasks, 0 <= N <= 100, with printable texts within
\* the length cap, texts with '[' or ']' among them, save_tasks followed by
\* load_tasks gives N tasks with the same text and done flag in the same
\* order: the list main loads is the list the last run saved on leaving.
C12_SaveLoadRoundTrip ==
    [][/\ ev'.op = "exit" => tasks_file' = save_tasks(tasks)
       /\ ev'.op = "main" =>
              /\ tasks_file = save_tasks(tasks)
              /\ Len(tasks') = Len(tasks)
              /\ \A i \in 1..Len(tasks) :
                    /\ tasks'[i].task = tasks[i].task
                    /\ tasks'[i].done = tasks[i].done]_vars

\* C12's case: a list of two tasks, one done with a text of brackets, one
\* with the longest text, was saved and loaded again
C12_Witness ==
    /\ ev.op = "main"
    /\ Len(tasks) = 2
    /\ tasks[1] = [task |-> <<91, 88, 93, 32, 97>>, done |-> 1]
    /\ Len(tasks[2].task) = MAX_TASK_LEN - 1
    /\ tasks_file = save_tasks(tasks)

\* A line as the command grammar reads it: blanks before and after it
\* taken off
RECURSIVE DropTrailing(_)
DropTrailing(l) ==
    IF Len(l) > 0 /\ (l[Len(l)] = 32 \/ l[Len(l)] = 9)
    THEN DropTrailing(SubSeq(l, 1, Len(l) - 1)) ELSE l
Trim(l) == DropTrailing(SubSeq(l, SkipBlanks(l, 1), Len(l)))

\* The command forms of the grammar: a letter f, b, s, d, q, h, ? alone, or
\* a letter a, t, d, u, r and a blank before an argument
IsLetterForm(l) == Len(l) = 1 /\ l[1] \in {102, 98, 115, 100, 113, 104, 63}
IsArgForm(l) ==
    Len(l) >= 2 /\ l[1] \in {97, 116, 100, 117, 114} /\ (l[2] = 32 \/ l[2] = 9)

\* The step taken submits the line in the buffer
Submits == ev'.op = "key" /\ ev'.ch = "enter" /\ input_mode = 1

\* The step taken appends the task {text, not done} and saves the list
AddsTask(text) ==
    /\ tasks' = Append(tasks, [task |-> text, done |-> 0])
    /\ tasks_file' = save_tasks(tasks')

\* C13: with fewer than 100 tasks, submitting `a <text>` with non-empty text
\* appends the one task {text, not done} and the task file holds the new
\* list; submitting a non-empty line that matches no command form appends
\* the one task whose text is the whole line (the line as the grammar reads
\* it, trimmed).
C13_AsClaimed ==
    [][(Submits /\ Len(tasks) < MAX_TASKS) =>
           LET line == Trim(input_buffer)
           IN  /\ (IsArgForm(line) /\ line[1] = 97) =>
                      AddsTask(SubSeq(line, 3, Len(line)))
               /\ (Len(line) > 0 /\ ~IsLetterForm(line) /\ ~IsArgForm(line)) =>
                      AddsTask(line)]_vars

\* arg as a whole is a decimal integer n with 1 <= n <= num_tasks
IsTaskNumber(arg) ==
    /\ Len(arg) > 0
    /\ \A i \in 1..Len(arg) : IsDigit(arg[i])
    /\ AtoiDigits(arg, 1, 0) >= 1
    /\ AtoiDigits(arg, 1, 0) <= Len(tasks)

\* C14: for `d <arg>`, `u <arg>` and `r <arg>` the list is changed only when
\* <arg> as a whole is a decimal integer n, 1 <= n <= num_tasks, and then it
\* is task n - 1 that is marked, unmarked or removed; for any other argument
\* the notice is "Invalid task number" and the list, the selection and the
\* task file are unchanged.
C14_AsClaimed ==
    [][LET line == SubSeq(input_buffer, SkipBlanks(input_buffer, 1),
                          Len(input_buffer))
           arg == SubSeq(line, 3, Len(line))
           n == AtoiDigits(arg, 1, 0)
       IN  (Submits /\ IsArgForm(line) /\ line[1] \in {100, 117, 114}) =>
               IF IsTaskNumber(arg)
               THEN CASE line[1] = 100 ->
                             tasks' = [tasks EXCEPT ![n].done = 1]
                      [] line[1] = 117 ->
                             tasks' = [tasks EXCEPT ![n].done = 0]
                      [] line[1] = 114 ->
                             tasks' = SubSeq(tasks, 1, n - 1)
                                      \o SubSeq(tasks, n + 1, Len(tasks))
               ELSE /\ notification_msg' = "Invalid task number"
                    /\ UNCHANGED <<tasks, current_task_index, tasks_file>>]_vars

\* C15: a submitted line that is one of the letters f, b, s, d, q, h, ?
\* with blanks before and/or after it does exactly what the bare letter
\* does when submitted (start focus, start break, stop, skip, quit, help)
\* and adds no task.
C15_AsClaimed ==
    [][(Submits /\ IsLetterForm(Trim(input_buffer))) =>
           /\ parse_command(Trim(input_buffer), ev'.ok)
           /\ tasks' = tasks]_vars

\* C16: Escape pressed in Command mode, whatever the buffer holds, returns
\* to Normal mode with an empty buffer and executes nothing: session_state,
\* remaining_seconds, the task list, the selection, the focus label, the
\* session log and the running flag are unchanged.
C16_EscapeDiscards ==
    [][(ev'.op = "key" /\ ev'.ch = "esc" /\ input_mode = 1) =>
           /\ input_mode' = 0
           /\ input_buffer' = <<>>
           /\ UNCHANGED <<session_state, timer_seconds, tasks,
                          current_task_index, focus_task, sessions_file,
                          running>>]_vars

\* C16's case: Escape found the buffer holding a command, `s`, during a
\* Focus session, which goes on
C16_Witness ==
    /\ ev.op = "key" /\ ev.ch = "esc"
    /\ ev.line = <<115>>
    /\ ev.from = SESSION_FOCUS
    /\ session_state = SESSION_FOCUS
    /\ input_mode = 0 /\ input_buffer = <<>>

\* The step taken ends the process
Exits == pc # "exited" /\ pc' = "exited"

\* C17: when the process ends because SIGINT or SIGTERM was received its
\* exit code is the signal's number; when it ends through the quit key or
\* the quit command its exit code is 0.
C17_AsClaimed ==
    [][Exits => exit_code' = IF sig_received # 0 THEN sig_received ELSE 0]_vars

\* C18: once running is cleared (quit key, quit command, signal) it stays
\* cleared, the iteration under way ends at the loop's test, and there the
\* only step is the exit, which has called save_tasks, save_settings,
\* free_resources and endwin, in this order, leaving the task file written
\* and no window; the process exits in no other way, and it does exit.
C18_ShutdownSequence ==
    /\ [][/\ (~running /\ pc # "exited") => ~running'
          /\ (~running /\ pc = "poll") => pc' = "top"
          /\ (~running /\ pc = "top") => Exits
          /\ Exits =>
                 /\ ~running /\ pc = "top"
                 /\ shutdown' = <<"save_tasks", "save_settings",
                                  "free_resources", "endwin">>
                 /\ tasks_file' = save_tasks(tasks)
                 /\ ~notification_win'
                 /\ exit_code' # -1]_vars
    /\ (~running) ~> (pc = "exited")

\* C18's case: the process has exited after a signal, through the four
\* calls
C18_Witness ==
    /\ pc = "exited"
    /\ sig_received = SIGTERM
    /\ Len(shutdown) = 4
    /\ ~running

\* The line submitted asks for a task to be added
AddAttempted ==
    /\ Submits
    /\ parse_command_input(input_buffer).ok
    /\ parse_command_input(input_buffer).type = "CMD_ADD_TASK"

\* C19: the list never holds more than MAX_TASKS tasks, whether loaded,
\* added to or removed from; an add attempted with MAX_TASKS tasks in the
\* list raises the notice "Maximum number of tasks reached" and leaves the
\* tasks, their order, their done flags and the task file as they were.
C19_TaskLimit ==
    /\ [](Len(tasks) <= MAX_TASKS)
    /\ [][(AddAttempted /\ Len(tasks) = MAX_TASKS) =>
              /\ tasks' = tasks
              /\ tasks_file' = tasks_file
              /\ notification_win'
              /\ notification_msg' = "Maximum number of tasks reached"]_vars

\* C19's case: a line that adds a task was submitted with MAX_TASKS tasks
\* loaded from a longer file, and was rejected
C19_Witness ==
    /\ ev.op = "key" /\ ev.ch = "enter" /\ ev.line # <<>>
    /\ Len(tasks) = MAX_TASKS
    /\ Len(tasks_file) = MAX_TASKS + 1
    /\ notification_msg = "Maximum number of tasks reached"

\* C20: the session log is append-only: every step leaves the log it found
\* as a prefix of the log it leaves, so the log at any state is a prefix of
\* the log at every later state; start, stop, skip, expiry, task commands,
\* the help key, start-up and shutdown rewrite, reorder and delete nothing.
C20_AppendOnly ==
    [][IsPrefix(sessions_file, sessions_file')]_vars

\* C20's case: a stopped Focus session was logged after the line the log
\* already held
C20_Witness ==
    /\ ev.op = "key" /\ ev.ch = "s" /\ ev.from = SESSION_FOCUS
    /\ Len(sessions_file) = 2
    /\ sessions_file[1] = UsedFiles.sessions[1]

\* C21: start-up (initialize_directories, load_settings, load_tasks) leaves
\* each of tasks.txt, sessions.csv and meta that exists with the contents it
\* had; a file that is missing is created, tasks.txt and sessions.csv
\* empty, meta with both counters 0.
C21_StartupKeepsFiles ==
    [][ev'.op = "main" =>
          /\ missing' = {}
          /\ tasks_file' = IF "tasks.txt" \in missing THEN <<>> ELSE tasks_file
          /\ sessions_file' = IF "sessions.csv" \in missing THEN <<>>
                              ELSE sessions_file
          /\ meta_file' = IF "meta" \in missing
                          THEN [streak_max |-> 0, streak_current |-> 0]
                          ELSE meta_file]_vars

\* C21's case: the program was started on a tasks.txt of more lines than
\* the list holds and on a log and counters of earlier runs, and all three
\* are as they were
C21_Witness ==
    /\ ev.op = "main"
    /\ Len(tasks) = MAX_TASKS
    /\ Len(tasks_file) = MAX_TASKS + 1
    /\ sessions_file = UsedFiles.sessions
    /\ meta_file = UsedFiles.meta

\* A pass of the main loop from its test to the poll: the expiry check and
\* the loop's display updates
RenderPass == pc = "top" /\ pc' = "poll"

\* C22: a notification shown with expiry now + duration and not replaced
\* since is torn down at the first pass of the main loop at which
\* now >= expiry, also when only poll timeouts have followed the show.
C22_AsClaimed ==
    [][(/\ RenderPass
        /\ notification_win
        /\ now >= notification_end_time
        /\ notification_end_time' = notification_end_time) =>
           ~notification_win']_vars

\* C23: session_start_time is set to the current time on every entry into
\* Focus and on every entry into Break: by start_focus, by start_break, by
\* skip from Focus and by the expiry of a Focus session.
C23_AsClaimed ==
    [][(/\ session_state' # session_state
        /\ session_state' \in {SESSION_FOCUS, SESSION_BREAK}) =>
           session_start_time' = now]_vars

\* The step taken changes the state of the session machine
Transition == session_state' # session_state

\* C24: every transition of the session machine (start_focus, start_break,
\* stop, skip from Focus, skip from Break, Focus expiry, Break expiry) shows
\* a notification and redraws the whole screen, the line of today's session
\* count with it, before the next poll for input.
C24_AsClaimed ==
    [][Transition =>
          /\ notification_win'
          /\ notification_end_time' > now
          /\ today_sessions' = get_today_sessions_count(sessions_file', now)]_vars

\* C25: no resize is lost: after every SIGWINCH, wherever in the loop it is
\* delivered, the terminal's size is read again by a recomputation of the
\* windows, unless the loop is left; the recomputation is made at the head
\* of an iteration, and the expiry check is the next thing the loop does.
C25_NoResizeLost ==
    /\ \A n \in 1..MaxResizes :
          (resizes >= n) ~> (resizes_read >= n \/ ~running)
    /\ [][/\ resizes_read' # resizes_read =>
                 /\ pc = "setup_windows" /\ pc' = "expiry"
                 /\ resizes_read' = resizes
                 /\ UNCHANGED sessVars
          /\ (pc = "expiry" /\ pc' # pc) => ev'.op = "top"
          /\ (pc = "top" /\ running /\ resize_pending /\ pc' # pc) =>
                 pc' = "handle_resize"]_vars

\* C25's case: the last SIGWINCH was delivered between the loop's test of
\* the flag and handle_resize clearing it, and the size was read after it
C25_Witness ==
    /\ resize_at = "handle_resize"
    /\ resizes = MaxResizes
    /\ resizes_read = resizes
    /\ ~resize_pending
    /\ pc = "poll"
    /\ ev.op = "top" /\ ev.from = SESSION_FOCUS
    /\ session_state = SESSION_BREAK

\* C26: when the log cannot be opened for append as a Focus session ends
\* (by stop, skip or expiry) the process goes on running, the session
\* machine is in the state and has the remaining seconds it has on
\* success, no entry is appended, and the counters in the meta file are
\* left as they were.
C26_LogFailureNonFatal ==
    [][(session_state = SESSION_FOCUS /\ session_state' # SESSION_FOCUS
        /\ ~ev'.ok) =>
           /\ sessions_file' = sessions_file
           /\ meta_file' = meta_file
           /\ running' /\ pc' \in {"top", "poll"}
           /\ session_state' = IF ev'.op = "key" /\ ev'.ch = "s"
                               THEN SESSION_INACTIVE ELSE SESSION_BREAK
           /\ timer_seconds' = ResetValue(session_state')]_vars

\* C26's case: a Focus session has expired with the log failing to open,
\* on counters that a logged session would have changed
C26_Witness ==
    /\ ev.op = "top" /\ ev.from = SESSION_FOCUS /\ ~ev.ok
    /\ session_state = SESSION_BREAK
    /\ sessions_file = <<>>
    /\ meta_file = FreshFiles.meta

\* The notices of the four task operations when they have changed the list
TaskNotices ==
    {"Task added", "Task marked as done", "Task unmarked", "Task removed"}

\* The step taken is a submitted line that one of them carried out
TaskMutation == Submits /\ notification_msg' \in TaskNotices

\* C27: after every successful add, mark done, unmark and remove the task
\* file holds the list in memory and nothing else: one line per task, in
\* the list's order, with the task's text and done flag, and no line left
\* from a longer list.
C27_FileIsList ==
    [][(TaskMutation \/ tasks' # tasks \/ tasks_file' # tasks_file) =>
           /\ tasks_file' = save_tasks(tasks')
           /\ Len(tasks_file') = Len(tasks')
           /\ load_tasks(tasks_file') = tasks']_vars

\* C27's case: a task was removed from a list of three and the file holds
\* the two that are left
C27_Witness ==
    /\ ev.op = "key" /\ ev.ch = "enter"
    /\ notification_msg = "Task removed"
    /\ Len(tasks) = 2
    /\ Len(tasks_file) = 2

\* C28: timer_seconds is never negative; it is FOCUS_DURATION whenever no
\* session is active, at most FOCUS_DURATION in Focus and at most
\* BREAK_DURATION in Break; and it is 0 with a session active only after
\* the poll timeout that decremented it to 0 and before the expiry check of
\* the next iteration: never while the loop polls for input, and the step
\* that made it 0 is a poll timeout.
C28_TimerRange ==
    /\ [](/\ timer_seconds >= 0
          /\ session_state = SESSION_INACTIVE =>
                 timer_seconds = FOCUS_DURATION
          /\ session_state = SESSION_FOCUS => timer_seconds <= FOCUS_DURATION
          /\ session_state = SESSION_BREAK => timer_seconds <= BREAK_DURATION
          /\ (timer_seconds = 0 /\ session_state # SESSION_INACTIVE) =>
                 pc # "poll")
    /\ [][(timer_seconds' = 0 /\ timer_seconds # 0) =>
              (ev'.op = "timeout" /\ pc' = "top")]_vars

\* C28's case: a Break that followed an expired Focus session has run down
\* to 0 and the loop stands before its expiry check
C28_Witness ==
    /\ timer_seconds = 0
    /\ session_state = SESSION_BREAK
    /\ pc = "top"
    /\ ev.op = "timeout"

\* The changes of state the session machine makes
AllowedChanges ==
    {<<SESSION_INACTIVE, SESSION_FOCUS>>, <<SESSION_INACTIVE, SESSION_BREAK>>,
     <<SESSION_FOCUS, SESSION_INACTIVE>>, <<SESSION_FOCUS, SESSION_BREAK>>,
     <<SESSION_BREAK, SESSION_INACTIVE>>}

\* C29: every change of session_state is Inactive to Focus, Inactive to
\* Break, Focus to Inactive, Focus to Break or Break to Inactive, so Focus
\* is entered only from Inactive and Break is never followed by Focus; one
\* expiry check makes at most one transition: an expired Focus session is
\* followed by Break with BREAK_DURATION seconds, not by Inactive, in that
\* iteration.
C29_Transitions ==
    [][/\ Transition => <<session_state, session_state'>> \in AllowedChanges
       /\ (ev'.op = "top" /\ session_state = SESSION_FOCUS /\ Transition) =>
              /\ session_state' = SESSION_BREAK
              /\ timer_seconds' = BREAK_DURATION
              /\ pc' = "poll"]_vars

\* C29's case: the Break that followed an expired Focus session has itself
\* expired, one transition in each of two iterations
C29_Witness ==
    /\ ev.op = "top" /\ ev.from = SESSION_BREAK
    /\ session_state = SESSION_INACTIVE
    /\ streak_hist.n = 1
    /\ pc = "poll"
    /\ nkeys = 1

\* C30: at every iteration boundary of the main loop the input buffer
\* holds between 0 and MAX_INPUT_LEN - 1 characters, and it is empty
\* whenever the router is in Normal mode: entering Command mode,
\* submitting with Enter (on an empty or a non-empty buffer) and cancelling
\* with Escape each leave it empty, and Backspace on an empty buffer
\* changes nothing.
C30_InputBuffer ==
    /\ [](/\ Len(input_buffer) <= MAX_INPUT_LEN - 1
          /\ input_mode = 0 => input_buffer = <<>>)
    /\ [][/\ (ev'.op = "key" /\ ev'.ch = "enter" /\ input_mode = 0) =>
                 (input_mode' = 1 /\ input_buffer' = <<>>)
          /\ (ev'.op = "key" /\ ev'.ch \in {"enter", "esc"}
              /\ input_mode = 1) =>
                 (input_mode' = 0 /\ input_buffer' = <<>>)
          /\ (ev'.op = "key" /\ ev'.ch = "backspace" /\ input_mode = 1
              /\ input_buffer = <<>>) =>
                 (input_mode' = 1 /\ input_buffer' = <<>>)]_vars

\* C30's case: a character was typed on a buffer of MAX_INPUT_LEN - 1
\* characters and was not taken
C30_Witness ==
    /\ ev.op = "key" /\ ev.ch = "z"
    /\ Len(ev.line) = MAX_INPUT_LEN - 1
    /\ Len(input_buffer) = MAX_INPUT_LEN - 1
    /\ input_mode = 1

\* The step taken ends the process's run: it clears running (the quit key,
\* the quit command, a terminating signal) or it is the exit
Terminates == (running /\ ~running') \/ Exits

\* C31: when the process is terminated by the quit key, the quit command
\* or a terminating signal while a Focus session is active, also one whose
\* timer_seconds has reached 0 before an expiry check has run, neither the
\* step that clears running nor the shutdown sequence appends an entry to
\* the session log or changes the streak counters.
C31_NoLogAtShutdown ==
    [][(Terminates /\ session_state = SESSION_FOCUS) =>
           /\ sessions_file' = sessions_file
           /\ meta_file' = meta_file
           /\ session_state' = SESSION_FOCUS]_vars

\* C31's case: the process has exited on a signal with a Focus session
\* whose timer had reached 0, and the log holds no entry for it
C31_Witness ==
    /\ pc = "exited"
    /\ sig_received # 0
    /\ session_state = SESSION_FOCUS
    /\ timer_seconds = 0
    /\ sessions_file = <<>>
    /\ meta_file = FreshFiles.meta

\* C32: as claimed, from persisted counters with max_streak >=
\* current_streak >= 0, after any Focus-session completions on any dates
\* the persisted counters still satisfy max_streak >= current_streak >= 0.
C32_AsClaimed ==
    /\ meta_file.streak_max >= meta_file.streak_current
    /\ meta_file.streak_current >= 0

\* A key other than Enter and Escape is handled in Command mode
TypedInCommandMode ==
    ev'.op = "key" /\ input_mode = 1 /\ ev'.ch \notin {"enter", "esc"}

\* C33: in Command mode a key other than Enter and Escape changes at most
\* the input buffer: session_state, timer_seconds, session_start_time, the
\* task list, the selection, show_help, the session log and running are
\* unchanged (and so are the mode, the files and the notification); 'q'
\* does not quit and 'a', 's', 'd', 'f' do not drive the session machine.
C33_CommandModeFrame ==
    [][TypedInCommandMode =>
           /\ UNCHANGED <<session_state, timer_seconds, session_start_time>>
           /\ UNCHANGED <<tasks, current_task_index, show_help, running>>
           /\ UNCHANGED <<sessions_file, meta_file, tasks_file, focus_task>>
           /\ UNCHANGED <<input_mode, notifVars, today_sessions>>
           /\ \/ input_buffer' = input_buffer
              \/ /\ ev'.ch \in DOMAIN KeyCode
                 /\ input_buffer' = Append(input_buffer, KeyCode[ev'.ch])
              \/ /\ ev'.ch = "backspace"
                 /\ input_buffer = Append(input_buffer', input_buffer[
                                              Len(input_buffer)])]_vars

\* C33's case: during a Focus session 's' was typed on the input line; it
\* is in the buffer, and the session runs on
C33_Witness ==
    /\ ev.op = "key" /\ ev.ch = "s" /\ ev.line = <<>>
    /\ input_mode = 1
    /\ input_buffer = <<115>>
    /\ session_state = SESSION_FOCUS
    /\ sessions_file = <<>>
    /\ running

\* A step of the loop that handles no key: the head of an iteration or a
\* poll that timed out
NoKeyStep == ev'.op \in {"top", "timeout"}

\* C34: when the poll only times out from some point on, every active
\* session ends in Inactive: without a key a Focus session goes nowhere but
\* to Break and a Break nowhere but to Inactive, an Inactive machine stays
\* Inactive with timer_seconds = FOCUS_DURATION, and the machine is in the
\* end Inactive with timer_seconds = FOCUS_DURATION for good.
C34_SessionsEnd ==
    /\ [][NoKeyStep =>
             /\ session_state = SESSION_FOCUS =>
                    session_state' \in {SESSION_FOCUS, SESSION_BREAK}
             /\ session_state = SESSION_BREAK =>
                    session_state' \in {SESSION_BREAK, SESSION_INACTIVE}
             /\ session_state = SESSION_INACTIVE =>
                    /\ session_state' = SESSION_INACTIVE
                    /\ timer_seconds = FOCUS_DURATION
                    /\ timer_seconds' = FOCUS_DURATION]_vars
    /\ <>[](session_state = SESSION_INACTIVE
            /\ timer_seconds = FOCUS_DURATION)
    /\ (session_state = SESSION_FOCUS /\ nkeys = QuietKeys)
           ~> (session_state = SESSION_BREAK)
    /\ (session_state = SESSION_BREAK /\ nkeys = QuietKeys)
           ~> (session_state = SESSION_INACTIVE)

\* C34's case: one key started a Focus session, the poll timed out from
\* then on, and after the session and the Break that followed the machine
\* is Inactive again
C34_Witness ==
    /\ session_state = SESSION_INACTIVE
    /\ timer_seconds = FOCUS_DURATION
    /\ nkeys = 1
    /\ ev.op = "timeout"
    /\ Len(sessions_file) = 1
    /\ now >= session_start_time + FOCUS_DURATION + BREAK_DURATION
    /\ idle = MaxIdle

====
